---- MODULE Spec2Model ----
(***************************************************************************)
(* Media intake and approval pipeline of telethon_fastapi.                 *)
(*                                                                         *)
(* One asyncio event loop runs the coroutines of the application (startup, *)
(* the live NewMessage handler, backfill, approval, batch approval, the    *)
(* periodic reconnection check).  A coroutine runs without interruption    *)
(* until it awaits an adapter or object-store call; `running` is the task  *)
(* that holds the loop.  The synchronous endpoints (def, run in FastAPI's  *)
(* thread pool) touch only the database and are single actions.            *)
(*                                                                         *)
(* Strings the code inspects character by character (usernames, file       *)
(* names) are sequences of one-character strings; an optional value is     *)
(* <<>> (None) or <<x>>.                                                   *)
(***************************************************************************)
EXTENDS Integers, Sequences, FiniteSets, TLC

(***************************************************************************)
(* Bounds of the model.                                                    *)
(***************************************************************************)
MaxMsgId == 2
MaxTasks == 2
MaxUploads == 2
MaxBatch == 2

TaskIds == 1..MaxTasks
MsgIds == 1..MaxMsgId

(***************************************************************************)
(* Values.                                                                 *)
(***************************************************************************)
None == <<>>

Some(x) == <<x>>

IsNone(o) == Len(o) = 0

Val(o) == o[1]

\* str(n) for a natural number n
RECURSIVE DecStr(_)
DecStr(n) ==
    LET d == <<"0", "1", "2", "3", "4", "5", "6", "7", "8", "9">>
    IN  IF n < 10 THEN <<d[n + 1]>> ELSE DecStr(n \div 10) \o <<d[(n % 10) + 1]>>

\* Names of platform channels, as the platform reports them (no "@").
NameA == <<"c", "h", "a", "n", "A">>
NameB == <<"c", "h", "a", "n", "B">>

\* The chats a NewMessage event can come from: two public channels and a
\* chat without a username.
Chats ==
    { [username |-> NameA, id |-> 7],
      [username |-> NameB, id |-> 8],
      [username |-> <<>>, id |-> 9] }

\* msg.file: None, or a file with a MIME type and an optional name
Files ==
    { None,
      Some([mime_type |-> "audio/mpeg", name |-> <<"a", ".", "x">>]),
      Some([mime_type |-> "audio/ogg", name |-> <<>>]),
      Some([mime_type |-> "application/pdf", name |-> <<>>]),
      Some([mime_type |-> "video/mp4", name |-> <<"a", ".", "x">>]) }

Messages == [id : MsgIds, file : Files]

(***************************************************************************)
(* The program's state.                                                    *)
(***************************************************************************)
VARIABLES
    channels,            \* table channels: row i has id i
    media_files,         \* table media_files: row i has id i
    client_connected,    \* client.is_connected()
    client_started,      \* telethon_client._client_started
    handlers_registered, \* telethon_client._handlers_registered
    n_handlers,          \* NewMessage handlers registered on the client
    login,               \* "bot_token" | "session" | "none": the environment
    booted,              \* lifespan: "init", "starting", "up"
    tasks,               \* the coroutines in flight
    running,             \* the task holding the event loop, or 0
    now,                 \* datetime.utcnow(), a logical clock
    uploads,             \* objects put into the object store so far
    resp                 \* the response produced by the last step, if any

vars == <<channels, media_files, client_connected, client_started,
          handlers_registered, n_handlers, login, booted, tasks, running,
          now, uploads, resp>>

NoResp == [op |-> "none"]

NoExc == ""

\* A free slot of the task pool. The fields are the locals of the coroutines.
IdleTask ==
    [ op |-> "idle",
      stack |-> <<>>,      \* program counters, the innermost call last
      exc |-> NoExc,       \* the exception being propagated
      is_bot |-> FALSE,    \* start_client
      event |-> None,      \* handler
      chans |-> <<>>,      \* pull_all_channel_media: channels, the current first
      retry |-> 0,         \*   retry_count
      msgs |-> <<>>,       \*   messages
      idx |-> 0,           \*   how many of them the for loop has taken
      media_count |-> 0,
      db_failed |-> FALSE, \*   db: a failed commit awaits its rollback
      media_id |-> 0,      \* approve_media / batch item
      media |-> None,      \*   the row as loaded
      msg |-> None,        \* download_and_store_media: the message
      s3_key |-> None,     \*   the key returned by store_media
      ids |-> <<>>,        \* batch_approve_media: ids still to process
      total |-> 0,         \*   len(request.media_ids)
      successful |-> <<>>,
      failed |-> <<>>,
      channel_username |-> <<>>,  \* fetch_recent_channel_messages
      ndl |-> 0,           \* downloads performed by this request
      nul |-> 0 ]          \* uploads performed by this request

Top(r) == r.stack[Len(r.stack)]

Goto(r, pc) == [r EXCEPT !.stack = SubSeq(@, 1, Len(@) - 1) \o <<pc>>]

\* call a coroutine: the caller continues at `ret` when it returns
Call(r, ret, entry) == [r EXCEPT !.stack = SubSeq(@, 1, Len(@) - 1) \o <<ret, entry>>]

Return(r) == [r EXCEPT !.stack = SubSeq(@, 1, Len(@) - 1)]

Raise(r, e) == [r EXCEPT !.stack = SubSeq(@, 1, Len(@) - 1), !.exc = e]

\* The program counters at which a coroutine is suspended in an await.
AwaitPcs ==
    { "sc:await_start", "sc:await_get_me", "hd:await_get_chat",
      "pl:await_entity", "pl:await_messages", "pl:await_sleep",
      "dl:await_entity", "dl:await_messages", "dl:await_download",
      "sm:await_save_temp", "sm:await_upload", "sm:await_cleanup",
      "ck:await_connect", "pv:await_entity", "pv:await_messages",
      "bg:scheduled" }

\* Task t holds the loop at pc.
At(t, pc) == running = t /\ tasks[t].stack # <<>> /\ Top(tasks[t]) = pc

\* Task t is suspended at pc and the loop is free to resume it.
Awaiting(t, pc) == running = 0 /\ tasks[t].stack # <<>> /\ Top(tasks[t]) = pc

\* Task t goes on as r: it keeps the loop until it awaits or ends.
Step(t, r) ==
    /\ tasks' = [tasks EXCEPT ![t] = IF r.stack = <<>> THEN IdleTask ELSE r]
    /\ running' = IF r.stack = <<>> \/ Top(r) \in AwaitPcs THEN 0 ELSE t

FreeSlot(t) == running = 0 /\ tasks[t].op = "idle" /\ \A u \in 1..(t - 1) : tasks[u].op # "idle"

Spawn(t, op, entry) ==
    /\ tasks' = [tasks EXCEPT ![t] = [IdleTask EXCEPT !.op = op, !.stack = <<entry>>]]
    /\ running' = t

Init ==
    /\ channels = <<>>
    /\ media_files = <<>>
    /\ client_connected = FALSE
    /\ client_started = FALSE
    /\ handlers_registered = FALSE
    /\ n_handlers = 0
    /\ login \in {"bot_token", "session", "none"}
    /\ booted = "init"
    /\ tasks = [t \in TaskIds |-> IdleTask]
    /\ running = 0
    /\ now = 0
    /\ uploads = 0
    /\ resp = NoResp

(***************************************************************************)
(* Ingestion: classification and the catalog insert.                       *)
(***************************************************************************)
\* A classification that takes every file that is not a PDF for audio.
MediaTypeElseAudio(mime) ==
    IF mime = "application/pdf" THEN "pdf"
    ELSE "audio"

\* media_type of the code: "" is None
MediaType(mime) ==
    IF mime \in {"audio/mpeg", "audio/ogg"} THEN "audio"
    ELSE IF mime = "application/pdf" THEN "pdf"
    ELSE ""

\* The media_type the code derives for a message: "" when msg.file is None.
MsgMediaType(msg) == IF IsNone(msg.file) THEN "" ELSE MediaType(Val(msg.file).mime_type)

media_exists(table, message_id) ==
    \E i \in DOMAIN table : table[i].message_id = message_id

\* save_media: INSERT and commit. downloaded_at and approved take the column
\* defaults.
save_media(table, message_id, channel_username, file_name, file_type, s3_key, clock) ==
    Append(table,
           [ id |-> Len(table) + 1,
             message_id |-> message_id,
             channel_username |-> channel_username,
             file_name |-> file_name,
             file_type |-> file_type,
             s3_key |-> s3_key,
             downloaded_at |-> clock,
             approved |-> FALSE ])

MessagePrefix == <<"m", "e", "s", "s", "a", "g", "e", "_">>

\* The file name without the fallback for a message that suggests none.
FileNameSuggested(msg) == Val(msg.file).name

\* suggested_name or f"message_{msg.id}"
FileNameFor(msg) ==
    LET suggested_name == Val(msg.file).name
    IN  IF suggested_name # <<>> THEN suggested_name ELSE MessagePrefix \o DecStr(msg.id)

\* channel.username or str(channel.id)
LiveChannelName(chat) == IF chat.username # <<>> THEN chat.username ELSE DecStr(chat.id)

\* The handler's body without the media_exists check.
HandlerRecordUnchecked(table, chat, msg, clock) ==
    IF MsgMediaType(msg) # ""
    THEN save_media(table, msg.id, LiveChannelName(chat), FileNameFor(msg),
                    MsgMediaType(msg), None, clock)
    ELSE table

\* The handler's body after get_chat: the table after the event.
HandlerRecord(table, chat, msg, clock) ==
    IF MsgMediaType(msg) # "" /\ ~media_exists(table, msg.id)
    THEN save_media(table, msg.id, LiveChannelName(chat), FileNameFor(msg),
                    MsgMediaType(msg), None, clock)
    ELSE table

\* An iteration of the loop that saves without asking media_exists.
PullRecordUnchecked(table, username, msg, clock) ==
    IF MsgMediaType(msg) # ""
    THEN save_media(table, msg.id, username, FileNameFor(msg), MsgMediaType(msg), None, clock)
    ELSE table

\* One iteration of backfill's loop over the fetched messages.
PullRecord(table, username, msg, clock) ==
    IF MsgMediaType(msg) # "" /\ ~media_exists(table, msg.id)
    THEN save_media(table, msg.id, username, FileNameFor(msg), MsgMediaType(msg), None, clock)
    ELSE table

(***************************************************************************)
(* start_client and ensure_client_connected.                               *)
(***************************************************************************)
\* A step of task t to r that produces no response.  An exception that
\* leaves the outermost coroutine of the task goes to whoever runs the task
\* (the scheduler, the framework's background runner) and is recorded here.
Quiet(t, r) ==
    /\ Step(t, r)
    /\ booted' = IF r.stack = <<>> /\ r.op = "startup" THEN "up" ELSE booted
    /\ resp' = IF r.stack = <<>> /\ r.exc # NoExc
               THEN [op |-> "unhandled", task |-> r.op, exc |-> r.exc]
               ELSE NoResp

\* lifespan: await start_client(), then the scheduler and the API start
Lifespan(t) ==
    /\ booted = "init"
    /\ FreeSlot(t)
    /\ Spawn(t, "startup", "sc:entry")
    /\ booted' = "starting"
    /\ resp' = NoResp
    /\ UNCHANGED <<channels, media_files, client_connected, client_started,
                   handlers_registered, n_handlers, login, now, uploads>>

\* start_client up to `await client.start(...)`, or the early return
sc_entry(t) ==
    /\ At(t, "sc:entry")
    /\ IF login \in {"bot_token", "session"}
       THEN Quiet(t, Goto(tasks[t], "sc:await_start"))
       ELSE Quiet(t, Return(tasks[t]))
    /\ UNCHANGED <<channels, media_files, client_connected, client_started,
                   handlers_registered, n_handlers, login, now, uploads>>

\* client.start() returns or raises; on success up to `await client.get_me()`
sc_await_start(t, outcome) ==
    /\ Awaiting(t, "sc:await_start")
    /\ CASE outcome = "ok" ->
              /\ client_connected' = TRUE
              /\ client_started' = TRUE
              /\ Quiet(t, Goto(tasks[t], "sc:await_get_me"))
         [] outcome = "not_connected" ->
              /\ client_connected' = FALSE
              /\ client_started' = client_started
              /\ Quiet(t, Return(tasks[t]))
         [] outcome = "raise" ->
              \* except Exception: _client_started = False
              /\ client_connected' = client_connected
              /\ client_started' = FALSE
              /\ Quiet(t, Return(tasks[t]))
    /\ UNCHANGED <<channels, media_files, handlers_registered, n_handlers, login,
                   now, uploads>>

\* A start_client that registers the handlers on every start.
sc_await_get_me_registers_again(t, outcome) ==
    /\ Awaiting(t, "sc:await_get_me")
    /\ LET is_bot == outcome = "ok" /\ login = "bot_token"
           r == [tasks[t] EXCEPT !.is_bot = is_bot]
       IN  /\ n_handlers' = n_handlers + 1
           /\ handlers_registered' = TRUE
           /\ IF ~handlers_registered /\ ~is_bot
              THEN Quiet(t, Call(r, "sc:after_pull", "pl:entry"))
              ELSE Quiet(t, Return([r EXCEPT !.is_bot = FALSE]))
    /\ UNCHANGED <<channels, media_files, client_connected, client_started, login,
                   now, uploads>>

\* A start_client that begins the startup backfill with the
\* handlers-registered flag still false.
sc_await_get_me_flag_late(t, outcome) ==
    /\ Awaiting(t, "sc:await_get_me")
    /\ LET is_bot == outcome = "ok" /\ login = "bot_token"
           r == [tasks[t] EXCEPT !.is_bot = is_bot]
       IN  IF ~handlers_registered
           THEN /\ n_handlers' = n_handlers + 1
                /\ IF ~is_bot
                   THEN /\ handlers_registered' = FALSE
                        /\ Quiet(t, Call(r, "sc:after_pull", "pl:entry"))
                   ELSE /\ handlers_registered' = TRUE
                        /\ Quiet(t, Return([r EXCEPT !.is_bot = FALSE]))
           ELSE /\ UNCHANGED <<n_handlers, handlers_registered>>
                /\ Quiet(t, Return([r EXCEPT !.is_bot = FALSE]))
    /\ UNCHANGED <<channels, media_files, client_connected, client_started, login,
                   now, uploads>>

\* get_me returns or raises; register_handlers; the startup backfill
sc_await_get_me(t, outcome) ==
    /\ Awaiting(t, "sc:await_get_me")
    /\ LET is_bot == outcome = "ok" /\ login = "bot_token"
           r == [tasks[t] EXCEPT !.is_bot = is_bot]
       IN  IF ~handlers_registered
           THEN /\ n_handlers' = n_handlers + 1
                /\ handlers_registered' = TRUE
                /\ IF ~is_bot
                   THEN Quiet(t, Call(r, "sc:after_pull", "pl:entry"))
                   ELSE Quiet(t, Return([r EXCEPT !.is_bot = FALSE]))
           ELSE /\ UNCHANGED <<n_handlers, handlers_registered>>
                /\ Quiet(t, Return([r EXCEPT !.is_bot = FALSE]))
    /\ UNCHANGED <<channels, media_files, client_connected, client_started, login,
                   now, uploads>>

\* pull_all_channel_media returned to start_client
sc_after_pull(t) ==
    /\ At(t, "sc:after_pull")
    /\ IF tasks[t].exc # NoExc
       THEN /\ client_started' = FALSE
            /\ Quiet(t, Return([tasks[t] EXCEPT !.exc = NoExc, !.is_bot = FALSE]))
       ELSE /\ client_started' = client_started
            /\ Quiet(t, Return([tasks[t] EXCEPT !.is_bot = FALSE]))
    /\ UNCHANGED <<channels, media_files, client_connected, handlers_registered,
                   n_handlers, login, now, uploads>>

en_entry(t) ==
    /\ At(t, "en:entry")
    /\ IF ~client_started \/ ~client_connected
       THEN Quiet(t, Call(tasks[t], "en:after_start", "sc:entry"))
       ELSE Quiet(t, Return(tasks[t]))
    /\ UNCHANGED <<channels, media_files, client_connected, client_started,
                   handlers_registered, n_handlers, login, now, uploads>>

en_after_start(t) ==
    /\ At(t, "en:after_start")
    /\ IF ~client_connected
       THEN Quiet(t, Raise(tasks[t], "Telethon client is not connected"))
       ELSE Quiet(t, Return(tasks[t]))
    /\ UNCHANGED <<channels, media_files, client_connected, client_started,
                   handlers_registered, n_handlers, login, now, uploads>>

\* The connection to the platform drops.
Disconnect ==
    /\ running = 0
    /\ client_connected
    /\ client_connected' = FALSE
    /\ resp' = NoResp
    /\ UNCHANGED <<channels, media_files, client_started, handlers_registered,
                   n_handlers, login, booted, tasks, running, now, uploads>>

(***************************************************************************)
(* The live NewMessage handler.                                            *)
(***************************************************************************)
Events == [chat : Chats, message : Messages]

\* The client delivers a new message to the registered handler, which
\* suspends in `await event.get_chat()`.
NewMessage(t, e) ==
    /\ FreeSlot(t)
    /\ client_connected
    /\ n_handlers > 0
    /\ tasks' = [tasks EXCEPT ![t] = [IdleTask EXCEPT !.op = "handler",
                                                      !.stack = <<"hd:await_get_chat">>,
                                                      !.event = Some(e)]]
    /\ resp' = NoResp
    /\ UNCHANGED <<channels, media_files, client_connected, client_started,
                   handlers_registered, n_handlers, login, booted, running, now,
                   uploads>>

\* A handler without its outer try: a failure of get_chat leaves the task.
hd_await_get_chat_unguarded(t, outcome) ==
    /\ Awaiting(t, "hd:await_get_chat")
    /\ LET e == Val(tasks[t].event)
           table == HandlerRecord(media_files, e.chat, e.message, now)
       IN  IF outcome = "ok"
           THEN /\ media_files' = table
                /\ now' = IF table # media_files THEN now + 1 ELSE now
                /\ Quiet(t, Return(tasks[t]))
           ELSE /\ outcome = "db_raise" => table # media_files
                /\ UNCHANGED <<media_files, now>>
                /\ Quiet(t, Raise(tasks[t], "get_chat failed"))
    /\ UNCHANGED <<channels, client_connected, client_started, handlers_registered,
                   n_handlers, login, uploads>>

\* What the handler logs for an event it gives up: the outer except for a
\* failure of get_chat, the inner one for a failure of the catalog.
HandlerError(e, log) == [op |-> "handler_error", log |-> log, message_id |-> e.message.id]

\* get_chat returns or raises; the rest of the handler has no await.  With
\* outcome "db_raise" get_chat returns and the commit of save_media raises.
hd_await_get_chat(t, outcome) ==
    /\ Awaiting(t, "hd:await_get_chat")
    /\ LET e == Val(tasks[t].event)
           table == HandlerRecord(media_files, e.chat, e.message, now)
       IN  CASE outcome = "ok" ->
                  /\ media_files' = table
                  /\ now' = IF table # media_files THEN now + 1 ELSE now
                  /\ resp' = NoResp
             [] outcome = "raise" ->
                  /\ UNCHANGED <<media_files, now>>
                  /\ resp' = HandlerError(e, "Error in message handler")
             [] outcome = "db_raise" ->
                  /\ table # media_files
                  /\ UNCHANGED <<media_files, now>>
                  /\ resp' = HandlerError(e, "Error recording message")
    /\ Step(t, Return(tasks[t]))
    /\ UNCHANGED <<channels, client_connected, client_started, handlers_registered,
                   n_handlers, login, booted, uploads>>

(***************************************************************************)
(* Backfill: pull_all_channel_media.                                       *)
(***************************************************************************)
max_retries == 3

\* crud.get_all_channels(db, active_only), which crud.py does not define: by
\* its callers, the rows of the table, the active ones only when active_only
get_all_channels(table, active_only) ==
    SelectSeq(table, LAMBDA c : ~active_only \/ c.active)

Usernames(rows) == [i \in DOMAIN rows |-> rows[i].username]

\* What get_messages(entity, limit=None) can return: messages with distinct
\* ids, the newest first.
Histories ==
    { h \in UNION { [1..n -> Messages] : n \in 0..MaxMsgId } :
        \A i \in DOMAIN h : \A j \in DOMAIN h : i < j => h[i].id > h[j].id }

\* A background task added by an endpoint starts once the response is sent.
bg_start(t) ==
    /\ Awaiting(t, "bg:scheduled")
    /\ Quiet(t, Goto(tasks[t], "pl:entry"))
    /\ UNCHANGED <<channels, media_files, client_connected, client_started,
                   handlers_registered, n_handlers, login, now, uploads>>

pl_entry(t) ==
    /\ At(t, "pl:entry")
    /\ Quiet(t, Call(tasks[t], "pl:after_ensure", "en:entry"))
    /\ UNCHANGED <<channels, media_files, client_connected, client_started,
                   handlers_registered, n_handlers, login, now, uploads>>

\* The loop goes on to the next channel, or the pull ends.  The log line at
\* the head of the loop body reads channel.username outside the try: on a
\* Session whose commit failed the row is expired, the read raises and the
\* exception leaves pull_all_channel_media through its finally.
PullNext(r) ==
    LET rest == Tail(r.chans)
        r1 == [r EXCEPT !.chans = rest, !.retry = 0, !.msgs = <<>>, !.idx = 0,
                        !.media_count = 0]
    IN  IF rest = <<>> THEN Return([r1 EXCEPT !.db_failed = FALSE])
        ELSE IF r.db_failed
        THEN Raise([r1 EXCEPT !.chans = <<>>, !.db_failed = FALSE], "PendingRollbackError")
        ELSE Goto(r1, "pl:await_entity")

\* except Exception in the retry loop: no rollback of db
PullFail(r) ==
    LET r1 == [r EXCEPT !.retry = @ + 1, !.msgs = <<>>, !.idx = 0, !.media_count = 0]
    IN  IF r1.retry < max_retries THEN Goto(r1, "pl:await_sleep") ELSE PullNext(r1)

\* The try body up to its first await: get_entity(channel.username) reads the
\* row, which raises on a Session whose commit failed.
PullAttempt(r) ==
    IF r.db_failed THEN PullFail(r) ELSE Goto(r, "pl:await_entity")

pl_after_ensure(t) ==
    /\ At(t, "pl:after_ensure")
    /\ LET r == tasks[t]
           chans == Usernames(get_all_channels(channels, TRUE))
       IN  IF r.exc # NoExc THEN Quiet(t, Return([r EXCEPT !.exc = NoExc]))
           ELSE IF chans = <<>> THEN Quiet(t, Return(r))
           ELSE Quiet(t, Goto([r EXCEPT !.chans = chans, !.retry = 0],
                              "pl:await_entity"))
    /\ UNCHANGED <<channels, media_files, client_connected, client_started,
                   handlers_registered, n_handlers, login, now, uploads>>

pl_await_entity(t, outcome) ==
    /\ Awaiting(t, "pl:await_entity")
    /\ IF outcome = "ok"
       THEN Quiet(t, Goto(tasks[t], "pl:await_messages"))
       ELSE Quiet(t, PullFail(tasks[t]))
    /\ UNCHANGED <<channels, media_files, client_connected, client_started,
                   handlers_registered, n_handlers, login, now, uploads>>

pl_await_messages(t, outcome, history) ==
    /\ Awaiting(t, "pl:await_messages")
    /\ IF outcome = "ok"
       THEN Quiet(t, Goto([tasks[t] EXCEPT !.msgs = history, !.idx = 0, !.media_count = 0],
                          "pl:ingest"))
       ELSE Quiet(t, PullFail(tasks[t]))
    /\ UNCHANGED <<channels, media_files, client_connected, client_started,
                   handlers_registered, n_handlers, login, now, uploads>>

\* one iteration of `for msg in messages`, or the break after the last;
\* outcome "raise": the commit of save_media fails and nothing is stored
pl_ingest(t, outcome) ==
    /\ At(t, "pl:ingest")
    /\ LET r == tasks[t]
       IN  IF r.idx = Len(r.msgs)
           THEN /\ outcome = "ok"
                /\ Quiet(t, PullNext(r))
                /\ UNCHANGED <<media_files, now>>
           ELSE LET table == PullRecord(media_files, Head(r.chans), r.msgs[r.idx + 1], now)
                    saved == IF table # media_files THEN 1 ELSE 0
                IN  IF outcome = "ok"
                    THEN /\ media_files' = table
                         /\ now' = now + saved
                         /\ Quiet(t, [r EXCEPT !.idx = @ + 1, !.media_count = @ + saved])
                    ELSE /\ saved = 1
                         /\ UNCHANGED <<media_files, now>>
                         /\ Quiet(t, PullFail([r EXCEPT !.db_failed = TRUE]))
    /\ UNCHANGED <<channels, client_connected, client_started, handlers_registered,
                   n_handlers, login, uploads>>

pl_await_sleep(t) ==
    /\ Awaiting(t, "pl:await_sleep")
    /\ Quiet(t, PullAttempt(tasks[t]))
    /\ UNCHANGED <<channels, media_files, client_connected, client_started,
                   handlers_registered, n_handlers, login, now, uploads>>

(***************************************************************************)
(* The Channel Registry.                                                   *)
(***************************************************************************)
\* str.replace(old, ""): every occurrence, left to right
RECURSIVE Remove(_, _)
Remove(s, old) ==
    IF Len(s) < Len(old) THEN s
    ELSE IF SubSeq(s, 1, Len(old)) = old THEN Remove(SubSeq(s, Len(old) + 1, Len(s)), old)
    ELSE <<Head(s)>> \o Remove(Tail(s), old)

Whitespace == {" ", "\t", "\n", "\r"}

RECURSIVE LStrip(_)
LStrip(s) == IF s # <<>> /\ Head(s) \in Whitespace THEN LStrip(Tail(s)) ELSE s

RECURSIVE RStrip(_)
RStrip(s) ==
    IF s # <<>> /\ s[Len(s)] \in Whitespace THEN RStrip(SubSeq(s, 1, Len(s) - 1)) ELSE s

Strip(s) == RStrip(LStrip(s))

WordChars ==
    { "a", "b", "c", "d", "e", "f", "g", "h", "i", "j", "k", "l", "m", "n", "o", "p",
      "q", "r", "s", "t", "u", "v", "w", "x", "y", "z",
      "A", "B", "C", "D", "E", "F", "G", "H", "I", "J", "K", "L", "M", "N", "O", "P",
      "Q", "R", "S", "T", "U", "V", "W", "X", "Y", "Z",
      "0", "1", "2", "3", "4", "5", "6", "7", "8", "9", "_" }

MinUsernameLen == 5
MaxUsernameLen == 32

\* re.match(r"^@[a-zA-Z0-9_]{5,32}$", username): "$" matches at the end of
\* the string and also before a newline that ends it
MatchesUsername(u) ==
    LET body == IF u # <<>> /\ u[Len(u)] = "\n" THEN SubSeq(u, 1, Len(u) - 1) ELSE u
    IN  /\ Len(body) >= 1 + MinUsernameLen
        /\ Len(body) <= 1 + MaxUsernameLen
        /\ body[1] = "@"
        /\ \A i \in 2..Len(body) : body[i] \in WordChars

HttpsPrefix == <<"h", "t", "t", "p", "s", ":", "/", "/", "t", ".", "m", "e", "/">>
HttpPrefix == <<"h", "t", "t", "p", ":", "/", "/", "t", ".", "m", "e", "/">>
TmePrefix == <<"t", ".", "m", "e", "/">>

\* The normalization with the replacement of "t.me/" alone.
NormalizeUsernameTmeOnly(username) ==
    LET u == Strip(Remove(username, TmePrefix))
    IN  IF u # <<>> /\ Head(u) = "@" THEN u ELSE <<"@">> \o u

\* The username after the replacements, the strip and the "@" prefix.
NormalizeUsername(username) ==
    LET u == Strip(Remove(Remove(Remove(username, HttpsPrefix), HttpPrefix), TmePrefix))
    IN  IF u # <<>> /\ Head(u) = "@" THEN u ELSE <<"@">> \o u

\* validate_channel_username: the normalized username, or None for ValueError
validate_channel_username(username) ==
    IF username = <<>> THEN None
    ELSE IF ~MatchesUsername(NormalizeUsername(username)) THEN None
    ELSE Some(NormalizeUsername(username))

\* A call of validate_channel_username and what it returns.
ValidateUsername(username) ==
    /\ resp' = [op |-> "validate_channel_username", username |-> username,
                result |-> validate_channel_username(username)]
    /\ UNCHANGED <<channels, media_files, client_connected, client_started,
                   handlers_registered, n_handlers, login, booted, tasks, running,
                   now, uploads>>

\* A call of validate_channel_username on the value the last call returned.
ValidateOutput ==
    /\ resp.op = "validate_channel_username"
    /\ ~IsNone(resp.result)
    /\ ValidateUsername(Val(resp.result))

\* The request bodies of add_channel.
RawUsernames ==
    { NameA,
      <<"@">> \o NameA,
      TmePrefix \o NameB,
      <<"b", "a", "d">> }

\* add_channel without the check for an existing row
AddChannelUnchecked(t, raw) ==
    /\ booted = "up"
    /\ FreeSlot(t)
    /\ LET v == validate_channel_username(raw)
       IN  /\ ~IsNone(v)
           /\ channels' = Append(channels, [id |-> Len(channels) + 1,
                                            username |-> Val(v), active |-> TRUE])
           /\ resp' = [op |-> "add_channel", status |-> 200, username |-> Val(v)]
    /\ tasks' = [tasks EXCEPT ![t] = [IdleTask EXCEPT !.op = "backfill",
                                                      !.stack = <<"bg:scheduled">>]]
    /\ UNCHANGED <<media_files, client_connected, client_started, handlers_registered,
                   n_handlers, login, booted, running, now, uploads>>

\* add_channel, accepted: the row and the background pull
AddChannelOk(t, raw) ==
    /\ booted = "up"
    /\ FreeSlot(t)
    /\ LET v == validate_channel_username(raw)
       IN  /\ ~IsNone(v)
           /\ ~\E i \in DOMAIN channels : channels[i].username = Val(v)
           /\ channels' = Append(channels, [id |-> Len(channels) + 1,
                                            username |-> Val(v), active |-> TRUE])
           /\ resp' = [op |-> "add_channel", status |-> 200, username |-> Val(v)]
    /\ tasks' = [tasks EXCEPT ![t] = [IdleTask EXCEPT !.op = "backfill",
                                                      !.stack = <<"bg:scheduled">>]]
    /\ UNCHANGED <<media_files, client_connected, client_started, handlers_registered,
                   n_handlers, login, booted, running, now, uploads>>

\* add_channel that answers 400 after the row was added and committed
AddChannelRejectedLate(raw) ==
    /\ booted = "up"
    /\ running = 0
    /\ LET v == validate_channel_username(raw)
       IN  \/ IsNone(v)
           \/ /\ ~IsNone(v)
              /\ \E i \in DOMAIN channels : channels[i].username = Val(v)
    /\ channels' = Append(channels, [id |-> Len(channels) + 1, username |-> raw,
                                     active |-> TRUE])
    /\ resp' = [op |-> "add_channel", status |-> 400, username |-> raw]
    /\ UNCHANGED <<media_files, client_connected, client_started,
                   handlers_registered, n_handlers, login, booted, tasks, running,
                   now, uploads>>

\* add_channel, rejected: invalid format or duplicate
AddChannelRejected(raw) ==
    /\ booted = "up"
    /\ running = 0
    /\ LET v == validate_channel_username(raw)
       IN  \/ IsNone(v)
           \/ /\ ~IsNone(v)
              /\ \E i \in DOMAIN channels : channels[i].username = Val(v)
    /\ resp' = [op |-> "add_channel", status |-> 400, username |-> raw]
    /\ UNCHANGED <<channels, media_files, client_connected, client_started,
                   handlers_registered, n_handlers, login, booted, tasks, running,
                   now, uploads>>

\* crud.get_active_channels
get_active_channels(table) == SelectSeq(table, LAMBDA c : c.active = TRUE)

\* list_channels: the active channels
ListChannels ==
    /\ booted = "up"
    /\ running = 0
    /\ resp' = [op |-> "list_channels", status |-> 200,
                items |-> get_active_channels(channels)]
    /\ UNCHANGED <<channels, media_files, client_connected, client_started,
                   handlers_registered, n_handlers, login, booted, tasks, running,
                   now, uploads>>

\* list_all_channels: every row, by id
ListAllChannels ==
    /\ booted = "up"
    /\ running = 0
    /\ resp' = [op |-> "list_all_channels", status |-> 200, items |-> channels]
    /\ UNCHANGED <<channels, media_files, client_connected, client_started,
                   handlers_registered, n_handlers, login, booted, tasks, running,
                   now, uploads>>

\* delete_channel deleting the row
DeleteChannelRow(channel_id) ==
    /\ booted = "up"
    /\ running = 0
    /\ IF channel_id \in DOMAIN channels
       THEN /\ channels' = SelectSeq(channels, LAMBDA c : c.id # channel_id)
            /\ resp' = [op |-> "delete_channel", status |-> 200, id |-> channel_id]
       ELSE /\ channels' = channels
            /\ resp' = [op |-> "delete_channel", status |-> 404, id |-> channel_id]
    /\ UNCHANGED <<media_files, client_connected, client_started, handlers_registered,
                   n_handlers, login, booted, tasks, running, now, uploads>>

\* delete_channel: the soft delete
DeleteChannel(channel_id) ==
    /\ booted = "up"
    /\ running = 0
    /\ IF channel_id \in DOMAIN channels
       THEN /\ channels' = [channels EXCEPT ![channel_id].active = FALSE]
            /\ resp' = [op |-> "delete_channel", status |-> 200, id |-> channel_id]
       ELSE /\ channels' = channels
            /\ resp' = [op |-> "delete_channel", status |-> 404, id |-> channel_id]
    /\ UNCHANGED <<media_files, client_connected, client_started, handlers_registered,
                   n_handlers, login, booted, tasks, running, now, uploads>>

\* toggle_channel with the pull added whenever the request asks for active
ToggleChannelAlwaysPulls(t, channel_id, active) ==
    /\ booted = "up"
    /\ running = 0
    /\ IF channel_id \notin DOMAIN channels
       THEN /\ resp' = [op |-> "toggle_channel", status |-> 404, id |-> channel_id]
            /\ UNCHANGED <<channels, tasks>>
       ELSE /\ channels' = [channels EXCEPT ![channel_id].active = active]
            /\ resp' = [op |-> "toggle_channel", status |-> 200, id |-> channel_id]
            /\ IF active
               THEN /\ FreeSlot(t)
                    /\ tasks' = [tasks EXCEPT ![t] =
                                    [IdleTask EXCEPT !.op = "backfill",
                                                     !.stack = <<"bg:scheduled">>]]
               ELSE /\ t = 1
                    /\ tasks' = tasks
    /\ UNCHANGED <<media_files, client_connected, client_started, handlers_registered,
                   n_handlers, login, booted, running, now, uploads>>

\* toggle_channel: the flag, and the background pull on reactivation
ToggleChannel(t, channel_id, active) ==
    /\ booted = "up"
    /\ running = 0
    /\ IF channel_id \notin DOMAIN channels
       THEN /\ resp' = [op |-> "toggle_channel", status |-> 404, id |-> channel_id]
            /\ UNCHANGED <<channels, tasks>>
       ELSE LET was_inactive == ~channels[channel_id].active
            IN  /\ channels' = [channels EXCEPT ![channel_id].active = active]
                /\ resp' = [op |-> "toggle_channel", status |-> 200, id |-> channel_id]
                /\ IF was_inactive /\ active
                   THEN /\ FreeSlot(t)
                        /\ tasks' = [tasks EXCEPT ![t] =
                                        [IdleTask EXCEPT !.op = "backfill",
                                                         !.stack = <<"bg:scheduled">>]]
                   ELSE /\ t = 1
                        /\ tasks' = tasks
    /\ UNCHANGED <<media_files, client_connected, client_started, handlers_registered,
                   n_handlers, login, booted, running, now, uploads>>

(***************************************************************************)
(* The supervisor: check_and_reconnect_client, every five minutes.         *)
(***************************************************************************)
\* The log line of a check that found the client healthy.
CheckOk == [op |-> "check", log |-> "connection check: OK"]

\* The check that calls connect() on a healthy client as well.
CheckTickAlwaysConnects(t) ==
    /\ booted = "up"
    /\ FreeSlot(t)
    /\ IF ~client_started
       THEN Spawn(t, "check", "sc:entry") /\ resp' = NoResp
       ELSE /\ tasks' = [tasks EXCEPT ![t] = [IdleTask EXCEPT !.op = "check",
                                                             !.stack = <<"ck:await_connect">>]]
            /\ running' = running
            /\ resp' = IF client_connected THEN CheckOk ELSE NoResp
    /\ UNCHANGED <<channels, media_files, client_connected, client_started,
                   handlers_registered, n_handlers, login, booted, now, uploads>>

\* A check that looks at the started flag only.
CheckTickByFlag(t) ==
    /\ booted = "up"
    /\ FreeSlot(t)
    /\ IF ~client_started
       THEN Spawn(t, "check", "sc:entry") /\ resp' = NoResp
       ELSE /\ UNCHANGED <<tasks, running>>
            /\ resp' = CheckOk
    /\ UNCHANGED <<channels, media_files, client_connected, client_started,
                   handlers_registered, n_handlers, login, booted, now, uploads>>

\* The scheduler fires; the check runs up to its first await or to its end.
\* On a healthy client all it leaves is its debug log line.
CheckTick(t) ==
    /\ booted = "up"
    /\ FreeSlot(t)
    /\ IF ~client_started
       THEN Spawn(t, "check", "sc:entry") /\ resp' = NoResp
       ELSE IF ~client_connected
       THEN /\ tasks' = [tasks EXCEPT ![t] = [IdleTask EXCEPT !.op = "check",
                                                             !.stack = <<"ck:await_connect">>]]
            /\ running' = running
            /\ resp' = NoResp
       ELSE /\ UNCHANGED <<tasks, running>>
            /\ resp' = CheckOk
    /\ UNCHANGED <<channels, media_files, client_connected, client_started,
                   handlers_registered, n_handlers, login, booted, now, uploads>>

\* The check that goes into the full restart whatever connect() achieved.
ck_await_connect_restarts(t, outcome) ==
    /\ Awaiting(t, "ck:await_connect")
    /\ CASE outcome = "ok" ->
              /\ client_connected' = TRUE
              /\ Quiet(t, Goto(tasks[t], "sc:entry"))
         [] outcome = "not_connected" ->
              /\ client_connected' = client_connected
              /\ Quiet(t, Goto(tasks[t], "sc:entry"))
         [] outcome = "raise" ->
              /\ client_connected' = client_connected
              /\ Quiet(t, Return(tasks[t]))
    /\ UNCHANGED <<channels, media_files, client_started, handlers_registered,
                   n_handlers, login, now, uploads>>

\* client.connect() returns connected, returns without a connection (then the
\* full restart, unless another coroutine has connected the client in the
\* meantime: is_connected() reads the client's state), or raises
ck_await_connect(t, outcome) ==
    /\ Awaiting(t, "ck:await_connect")
    /\ CASE outcome = "ok" ->
              /\ client_connected' = TRUE
              /\ Quiet(t, Return(tasks[t]))
         [] outcome = "not_connected" ->
              /\ client_connected' = client_connected
              /\ IF client_connected THEN Quiet(t, Return(tasks[t]))
                                     ELSE Quiet(t, Goto(tasks[t], "sc:entry"))
         [] outcome = "raise" ->
              /\ client_connected' = client_connected
              /\ Quiet(t, Return(tasks[t]))
    /\ UNCHANGED <<channels, media_files, client_started, handlers_registered,
                   n_handlers, login, now, uploads>>

(***************************************************************************)
(* Materialization: download_and_store_media and store_media.              *)
(***************************************************************************)
S3_BUCKET_AUDIO == <<"a", "u", "d", "i", "o">>
S3_BUCKET_PDF == <<"p", "d", "f">>

\* f"{uuid4()}-{os.path.basename(local_path)}": the n-th uuid is "u<n>"
ObjectName(n, basename) == <<"u">> \o DecStr(n) \o <<"-">> \o basename

\* upload_to_s3's return value f"{bucket}/{object_name}"
S3Key(bucket, object_name) == bucket \o <<"/">> \o object_name

\* store_media's choice of bucket
BucketFor(media_type) == IF media_type = "audio" THEN S3_BUCKET_AUDIO ELSE S3_BUCKET_PDF

\* The name of the file download_media wrote: the attachment's name, or one
\* the library makes up.
DownloadName(msg) == IF Val(msg.file).name # <<>> THEN Val(msg.file).name ELSE <<"f">>

\* A step of the request's task that neither ends it nor touches the tables.
DlStep(t, r) ==
    /\ Quiet(t, r)
    /\ UNCHANGED <<channels, media_files, client_connected, client_started,
                   handlers_registered, n_handlers, login, now, uploads>>

dl_entry(t) ==
    /\ At(t, "dl:entry")
    /\ DlStep(t, Call(tasks[t], "dl:after_ensure", "en:entry"))

dl_after_ensure(t) ==
    /\ At(t, "dl:after_ensure")
    /\ LET r == tasks[t]
       IN  IF r.exc # NoExc THEN DlStep(t, Return(r))
           ELSE IF Val(r.media).channel_username # <<>> THEN DlStep(t, Goto(r, "dl:await_entity"))
           ELSE DlStep(t, Goto(r, "dl:await_messages"))

dl_await_entity(t, outcome) ==
    /\ Awaiting(t, "dl:await_entity")
    /\ IF outcome = "ok" THEN DlStep(t, Goto(tasks[t], "dl:await_messages"))
       ELSE DlStep(t, Raise(tasks[t], "get_entity failed"))

\* get_messages(entity, ids=message_id) returns the message, None, or raises
dl_await_messages(t, outcome, found) ==
    /\ Awaiting(t, "dl:await_messages")
    /\ IF outcome = "raise" THEN DlStep(t, Raise(tasks[t], "get_messages failed"))
       ELSE IF IsNone(found) \/ IsNone(Val(found).file)
       THEN DlStep(t, Raise(tasks[t], "Message not found or has no file"))
       ELSE DlStep(t, Goto([tasks[t] EXCEPT !.msg = found], "dl:await_download"))

\* A download_and_store_media that stores whatever it downloaded.
dl_await_download_any_kind(t, outcome) ==
    /\ Awaiting(t, "dl:await_download")
    /\ LET r == tasks[t]
       IN  IF outcome = "raise" THEN DlStep(t, Raise([r EXCEPT !.msg = None], "download_media failed"))
           ELSE IF outcome = "none"
           THEN DlStep(t, Raise([r EXCEPT !.msg = None], "Failed to download media"))
           ELSE DlStep(t, Goto([r EXCEPT !.ndl = @ + 1], "sm:await_save_temp"))

\* download_media returns a path, None, or raises; then the kind re-check
dl_await_download(t, outcome) ==
    /\ Awaiting(t, "dl:await_download")
    /\ LET r == tasks[t]
       IN  IF outcome = "raise" THEN DlStep(t, Raise([r EXCEPT !.msg = None], "download_media failed"))
           ELSE IF outcome = "none"
           THEN DlStep(t, Raise([r EXCEPT !.msg = None], "Failed to download media"))
           ELSE IF MsgMediaType(Val(r.msg)) = ""
           THEN DlStep(t, Raise([r EXCEPT !.msg = None, !.ndl = @ + 1], "Unsupported media type"))
           ELSE DlStep(t, Goto([r EXCEPT !.ndl = @ + 1], "sm:await_save_temp"))

sm_await_save_temp(t, outcome) ==
    /\ Awaiting(t, "sm:await_save_temp")
    /\ IF outcome = "ok" THEN DlStep(t, Goto(tasks[t], "sm:await_upload"))
       ELSE DlStep(t, Raise([tasks[t] EXCEPT !.msg = None], "save_temp_file failed"))

\* upload_to_s3: put_object succeeds and the key is returned, or HTTPException
sm_await_upload(t, outcome) ==
    /\ Awaiting(t, "sm:await_upload")
    /\ LET r == tasks[t]
           msg == Val(r.msg)
           key == S3Key(BucketFor(MsgMediaType(msg)), ObjectName(uploads + 1, DownloadName(msg)))
       IN  IF outcome = "ok"
           THEN /\ uploads < MaxUploads
                /\ uploads' = uploads + 1
                /\ Quiet(t, Goto([r EXCEPT !.s3_key = Some(key), !.nul = @ + 1, !.msg = None],
                                 "sm:await_cleanup"))
           ELSE /\ uploads' = uploads
                /\ Quiet(t, Raise([r EXCEPT !.msg = None], "upload failed"))
    /\ UNCHANGED <<channels, media_files, client_connected, client_started,
                   handlers_registered, n_handlers, login, now>>

\* A store_media that returns nothing after its cleanup.
sm_await_cleanup_drops_key(t) ==
    /\ Awaiting(t, "sm:await_cleanup")
    /\ DlStep(t, Return([tasks[t] EXCEPT !.s3_key = None]))

\* _cleanup_file swallows its errors; store_media and then
\* download_and_store_media return the key
sm_await_cleanup(t) ==
    /\ Awaiting(t, "sm:await_cleanup")
    /\ DlStep(t, Return(tasks[t]))

(***************************************************************************)
(* The approval endpoints.                                                 *)
(***************************************************************************)
\* A lookup that falls back to the first row.
get_media_by_id_or_first(table, media_id) ==
    IF media_id \in DOMAIN table THEN Some(table[media_id])
    ELSE IF table # <<>> THEN Some(table[1])
    ELSE None

get_media_by_id(table, media_id) ==
    IF media_id \in DOMAIN table THEN Some(table[media_id]) ELSE None

\* An update that commits the location and the timestamp ahead of the flag.
ApproveRowKeyFirst(row, s3_key, clock) ==
    [row EXCEPT !.s3_key = s3_key, !.downloaded_at = clock]

\* An update that flips the flag instead of setting it.
ApproveRowFlip(row, s3_key, clock) ==
    [row EXCEPT !.s3_key = s3_key, !.downloaded_at = clock, !.approved = ~@]

\* media.s3_key = ...; media.downloaded_at = utcnow(); media.approved = True; commit
ApproveRow(row, s3_key, clock) ==
    [row EXCEPT !.s3_key = s3_key, !.downloaded_at = clock, !.approved = TRUE]

\* approve_media up to the first await: 404, or into download_and_store_media
ApproveStart(t, media_id) ==
    /\ booted = "up"
    /\ FreeSlot(t)
    /\ LET media == get_media_by_id(media_files, media_id)
       IN  IF IsNone(media)
           THEN /\ resp' = [op |-> "approve", status |-> 404, id |-> media_id,
                            ndl |-> 0, nul |-> 0]
                /\ UNCHANGED <<tasks, running>>
           ELSE /\ resp' = NoResp
                /\ tasks' = [tasks EXCEPT ![t] =
                                [IdleTask EXCEPT !.op = "approve",
                                                 !.media_id = media_id,
                                                 !.media = media,
                                                 !.stack = <<"ap:after_dl", "dl:entry">>]]
                /\ running' = t
    /\ UNCHANGED <<channels, media_files, client_connected, client_started,
                   handlers_registered, n_handlers, login, booted, now, uploads>>

\* An approve_media that marks the record approved before it looks at the
\* outcome of download_and_store_media.
ap_after_dl_marked_first(t) ==
    /\ At(t, "ap:after_dl")
    /\ LET r == tasks[t]
           row == ApproveRow(media_files[r.media_id], r.s3_key, now)
       IN  /\ media_files' = [media_files EXCEPT ![r.media_id] = row]
           /\ now' = now + 1
           /\ resp' = [op |-> "approve", status |-> IF r.exc # NoExc THEN 500 ELSE 200,
                       id |-> r.media_id, detail |-> r.exc, before |-> Val(r.media),
                       media |-> row, ndl |-> r.ndl, nul |-> r.nul]
    /\ Step(t, Return(tasks[t]))
    /\ UNCHANGED <<channels, client_connected, client_started, handlers_registered,
                   n_handlers, login, booted, uploads>>

\* An approve_media that returns the record to Discovered when the
\* materialization failed.
ap_after_dl_resets_on_failure(t) ==
    /\ At(t, "ap:after_dl")
    /\ LET r == tasks[t]
           row == ApproveRow(media_files[r.media_id], r.s3_key, now)
           reset == [media_files[r.media_id] EXCEPT !.s3_key = None, !.approved = FALSE]
       IN  IF r.exc # NoExc
           THEN /\ resp' = [op |-> "approve", status |-> 500, id |-> r.media_id,
                            detail |-> r.exc, before |-> Val(r.media),
                            ndl |-> r.ndl, nul |-> r.nul]
                /\ media_files' = [media_files EXCEPT ![r.media_id] = reset]
                /\ now' = now
           ELSE /\ media_files' = [media_files EXCEPT ![r.media_id] = row]
                /\ now' = now + 1
                /\ resp' = [op |-> "approve", status |-> 200, id |-> r.media_id,
                            before |-> Val(r.media), media |-> row,
                            ndl |-> r.ndl, nul |-> r.nul]
    /\ Step(t, Return(tasks[t]))
    /\ UNCHANGED <<channels, client_connected, client_started, handlers_registered,
                   n_handlers, login, booted, uploads>>

\* download_and_store_media returned or raised: 500, or the update and 200
ap_after_dl(t) ==
    /\ At(t, "ap:after_dl")
    /\ LET r == tasks[t]
           row == ApproveRow(media_files[r.media_id], r.s3_key, now)
       IN  IF r.exc # NoExc
           THEN /\ resp' = [op |-> "approve", status |-> 500, id |-> r.media_id,
                            detail |-> r.exc, before |-> Val(r.media),
                            ndl |-> r.ndl, nul |-> r.nul]
                /\ UNCHANGED <<media_files, now>>
           ELSE /\ media_files' = [media_files EXCEPT ![r.media_id] = row]
                /\ now' = now + 1
                /\ resp' = [op |-> "approve", status |-> 200, id |-> r.media_id,
                            before |-> Val(r.media), media |-> row,
                            ndl |-> r.ndl, nul |-> r.nul]
    /\ Step(t, Return(tasks[t]))
    /\ UNCHANGED <<channels, client_connected, client_started, handlers_registered,
                   n_handlers, login, booted, uploads>>

AttributeError == "'MediaFile' object has no attribute 'filename'"

\* Evaluating media.filename raises AttributeError unless the row has the
\* attribute.
NoFilename(row) == "filename" \notin DOMAIN row

\* successful.append({..., "filename": media.filename}); an AttributeError
\* lands in the outer except, which appends to failed
AppendSuccessful(r, media_id, status, row) ==
    IF NoFilename(row)
    THEN [r EXCEPT !.failed = Append(@, [id |-> media_id, error |-> AttributeError])]
    ELSE [r EXCEPT !.successful = Append(@, [id |-> media_id, status |-> status])]

\* failed.append({..., "error": str(download_error), "filename": media.filename})
AppendDownloadFailed(r, media_id, error, row) ==
    IF NoFilename(row)
    THEN [r EXCEPT !.failed = Append(@, [id |-> media_id, error |-> AttributeError])]
    ELSE [r EXCEPT !.failed = Append(@, [id |-> media_id, error |-> error])]

BatchLimit == 100

\* A size check that also turns away a request of exactly BatchLimit ids.
BatchRejectedAtLimit(media_ids) == media_ids = <<>> \/ Len(media_ids) >= BatchLimit

\* `if not request.media_ids` and `if len(request.media_ids) > 100`
BatchRejected(media_ids) == media_ids = <<>> \/ Len(media_ids) > BatchLimit

\* batch_approve_media up to the loop: the two 400s
BatchStart(t, media_ids) ==
    /\ booted = "up"
    /\ FreeSlot(t)
    /\ IF BatchRejected(media_ids)
       THEN /\ resp' = [op |-> "batch", status |-> 400, total |-> Len(media_ids)]
            /\ UNCHANGED <<tasks, running>>
       ELSE /\ resp' = NoResp
            /\ tasks' = [tasks EXCEPT ![t] =
                            [IdleTask EXCEPT !.op = "batch", !.ids = media_ids,
                                             !.total = Len(media_ids),
                                             !.stack = <<"ba:item">>]]
            /\ running' = t
    /\ UNCHANGED <<channels, media_files, client_connected, client_started,
                   handlers_registered, n_handlers, login, booted, now, uploads>>

\* One pass of `for media_id in request.media_ids` up to the download, or
\* the summary after the last id.
ba_item(t) ==
    /\ At(t, "ba:item")
    /\ LET r == tasks[t]
           media_id == Head(r.ids)
           media == get_media_by_id(media_files, media_id)
           next == [r EXCEPT !.ids = Tail(@), !.media = None, !.media_id = 0]
       IN  IF r.ids = <<>>
           THEN /\ resp' = [op |-> "batch", status |-> 200, total |-> r.total,
                            successful |-> Len(r.successful), failed |-> Len(r.failed),
                            successful_items |-> r.successful, failed_items |-> r.failed,
                            ndl |-> r.ndl, nul |-> r.nul]
                /\ Step(t, Return(r))
           ELSE /\ resp' = NoResp
                /\ IF IsNone(media)
                   THEN Step(t, [next EXCEPT !.failed =
                                    Append(@, [id |-> media_id, error |-> "Media not found"])])
                   ELSE IF Val(media).approved
                   THEN Step(t, AppendSuccessful(next, media_id, "already_approved", Val(media)))
                   ELSE Step(t, Call([r EXCEPT !.media_id = media_id, !.media = media],
                                     "ba:after_dl", "dl:entry"))
    /\ UNCHANGED <<channels, media_files, client_connected, client_started,
                   handlers_registered, n_handlers, login, booted, now, uploads>>

\* download_and_store_media returned or raised inside the batch loop
ba_after_dl(t) ==
    /\ At(t, "ba:after_dl")
    /\ LET r == tasks[t]
           row == ApproveRow(media_files[r.media_id], r.s3_key, now)
           next == [r EXCEPT !.ids = Tail(@), !.media = None, !.media_id = 0,
                             !.exc = NoExc, !.s3_key = None]
       IN  IF r.exc # NoExc
           THEN /\ Step(t, Goto(AppendDownloadFailed(next, r.media_id, r.exc, Val(r.media)),
                                "ba:item"))
                /\ UNCHANGED <<media_files, now>>
           ELSE /\ media_files' = [media_files EXCEPT ![r.media_id] = row]
                /\ now' = now + 1
                /\ Step(t, Goto(AppendSuccessful(next, r.media_id, "approved", row), "ba:item"))
    /\ resp' = NoResp
    /\ UNCHANGED <<channels, client_connected, client_started, handlers_registered,
                   n_handlers, login, booted, uploads>>

\* str.split("/", 1)
RECURSIVE SplitOnce(_, _)
SplitOnce(head, rest) ==
    IF rest = <<>> THEN <<head>>
    ELSE IF Head(rest) = "/" THEN <<head, Tail(rest)>>
    ELSE SplitOnce(Append(head, Head(rest)), Tail(rest))

\* A status that looks at nothing but the existence of the record.
DownloadUrlStatusUnguarded(media) ==
    IF IsNone(media) THEN 404
    ELSE 200

\* get_download_url's status: 404, 500 (AttributeError on None, or a key
\* without "/"), 403, 200
DownloadUrlStatus(media) ==
    IF IsNone(media) THEN 404
    ELSE IF IsNone(Val(media).s3_key) THEN 500
    ELSE IF Len(SplitOnce(<<>>, Val(Val(media).s3_key))) # 2 THEN 500
    ELSE IF ~Val(media).approved THEN 403
    ELSE 200

GetDownloadUrl(media_id) ==
    /\ booted = "up"
    /\ running = 0
    /\ LET media == get_media_by_id(media_files, media_id)
           status == DownloadUrlStatus(media)
       IN  resp' = [op |-> "download_url", status |-> status, id |-> media_id]
    /\ UNCHANGED <<channels, media_files, client_connected, client_started,
                   handlers_registered, n_handlers, login, booted, tasks, running,
                   now, uploads>>

(***************************************************************************)
(* The catalog's listings: crud.list_media, crud.count_media and the two   *)
(* endpoints over them.  A media_type of "" is None.                       *)
(***************************************************************************)
\* The filters list_media and count_media put on the query.
MediaQuery(table, media_type, approved_only) ==
    SelectSeq(table, LAMBDA m : /\ approved_only => m.approved = TRUE
                                /\ media_type # "" => m.file_type = media_type)

\* The sequence without its i-th element.
DropAt(rows, i) == SubSeq(rows, 1, i - 1) \o SubSeq(rows, i + 1, Len(rows))

\* order_by(downloaded_at.desc()); rows of one instant stay in table order
RECURSIVE OrderByDownloadedAtDesc(_)
OrderByDownloadedAtDesc(rows) ==
    IF rows = <<>> THEN <<>>
    ELSE LET first == CHOOSE i \in DOMAIN rows :
                        \A j \in DOMAIN rows :
                            \/ rows[j].downloaded_at < rows[i].downloaded_at
                            \/ rows[j].downloaded_at = rows[i].downloaded_at /\ i <= j
         IN  <<rows[first]>> \o OrderByDownloadedAtDesc(DropAt(rows, first))

\* .offset(skip)
Offset(rows, skip) == SubSeq(rows, skip + 1, Len(rows))

\* .limit(limit)
Limit(rows, limit) == SubSeq(rows, 1, IF limit < Len(rows) THEN limit ELSE Len(rows))

\* crud.list_media that ignores skip
list_media_from_start(table, skip, limit, media_type, approved_only) ==
    Limit(OrderByDownloadedAtDesc(MediaQuery(table, media_type, approved_only)), limit)

\* crud.list_media
list_media(table, skip, limit, media_type, approved_only) ==
    Limit(Offset(OrderByDownloadedAtDesc(MediaQuery(table, media_type, approved_only)),
                 skip),
          limit)

\* crud.get_media_by_channel
get_media_by_channel(table, channel_username, skip, limit) ==
    Limit(Offset(OrderByDownloadedAtDesc(
                     SelectSeq(table, LAMBDA m : m.channel_username = channel_username)),
                 skip),
          limit)

\* crud.count_media
count_media(table, media_type, approved_only) ==
    Len(MediaQuery(table, media_type, approved_only))

\* GET /media/: the count, then the page.  req keeps the request's
\* parameters next to the answer.
ListMedia(skip, limit, media_type, approved_only) ==
    /\ booted = "up"
    /\ running = 0
    /\ LET total == count_media(media_files, media_type, approved_only)
           items == list_media(media_files, skip, limit, media_type, approved_only)
       IN  resp' = [op |-> "list_media", status |-> 200,
                    req |-> [skip |-> skip, limit |-> limit, media_type |-> media_type,
                             approved_only |-> approved_only],
                    items |-> items, total |-> total, skip |-> skip, limit |-> limit]
    /\ UNCHANGED <<channels, media_files, client_connected, client_started,
                   handlers_registered, n_handlers, login, booted, tasks, running,
                   now, uploads>>

\* GET /media/pending: a page of every record, of which the unapproved ones
\* are kept, and the count of every record.
ListPendingMedia(skip, limit) ==
    /\ booted = "up"
    /\ running = 0
    /\ LET items == list_media(media_files, skip, limit, "", FALSE)
           pending == SelectSeq(items, LAMBDA m : ~m.approved)
           total_pending == count_media(media_files, "", FALSE)
       IN  resp' = [op |-> "list_pending_media", status |-> 200,
                    req |-> [skip |-> skip, limit |-> limit],
                    items |-> pending, total |-> total_pending,
                    skip |-> skip, limit |-> limit]
    /\ UNCHANGED <<channels, media_files, client_connected, client_started,
                   handlers_registered, n_handlers, login, booted, tasks, running,
                   now, uploads>>

(***************************************************************************)
(* Diagnostics: the manual trigger of a backfill.                          *)
(***************************************************************************)
\* diagnostics.py binds the name _client_started with `from ..telethon_client
\* import ...` when the application module is imported, ahead of the
\* lifespan: it holds the value the flag has then, and the assignments of
\* start_client go to the variable of telethon_client, not to this name.
diagnostics_client_started == FALSE

\* POST /api/diagnostics/trigger-pull
TriggerPull(t) ==
    /\ booted = "up"
    /\ running = 0
    /\ LET active_channels == get_all_channels(channels, TRUE)
       IN  IF ~diagnostics_client_started \/ ~client_connected
           THEN /\ resp' = [op |-> "trigger_pull", success |-> FALSE,
                            error |-> "Telethon client not connected"]
                /\ UNCHANGED tasks
           ELSE IF active_channels = <<>>
           THEN /\ resp' = [op |-> "trigger_pull", success |-> FALSE,
                            error |-> "No active channels"]
                /\ UNCHANGED tasks
           ELSE /\ FreeSlot(t)
                /\ resp' = [op |-> "trigger_pull", success |-> TRUE,
                            channels |-> Usernames(active_channels)]
                /\ tasks' = [tasks EXCEPT ![t] = [IdleTask EXCEPT !.op = "backfill",
                                                                  !.stack = <<"bg:scheduled">>]]
    /\ UNCHANGED <<channels, media_files, client_connected, client_started,
                   handlers_registered, n_handlers, login, booted, running, now, uploads>>

(***************************************************************************)
(* Preview: fetch_recent_channel_messages and its endpoint.                *)
(***************************************************************************)
\* The error logged by the except around the adapter calls and the loop
FetchFailed == "Failed to fetch messages"

\* The dict appended for a message that has a file
PreviewItem(m) ==
    [message_id |-> m.id, file_name |-> Val(m.file).name,
     mime_type |-> Val(m.file).mime_type]

\* result after the for loop has taken the first n messages
RECURSIVE PreviewItems(_, _)
PreviewItems(messages, n) ==
    IF n = 0 THEN <<>>
    ELSE LET m == messages[n]
         IN  PreviewItems(messages, n - 1)
                 \o (IF IsNone(m.file) THEN <<>> ELSE <<PreviewItem(m)>>)

\* preview_telegram_messages answers with what the fetch returned; log is
\* the error the fetch logged, if any
PreviewAnswer(t, items, log) ==
    /\ Step(t, Return(tasks[t]))
    /\ resp' = [op |-> "preview", status |-> 200,
                channel |-> tasks[t].channel_username, items |-> items,
                log |-> log]
    /\ UNCHANGED <<channels, media_files, client_connected, client_started,
                   handlers_registered, n_handlers, login, booted, now, uploads>>

PvStep(t, r) ==
    /\ Quiet(t, r)
    /\ UNCHANGED <<channels, media_files, client_connected, client_started,
                   handlers_registered, n_handlers, login, now, uploads>>

\* GET /media/telegram/{channel_username}/messages, up to the guard
PreviewStart(t, channel_username) ==
    /\ booted = "up"
    /\ FreeSlot(t)
    /\ tasks' = [tasks EXCEPT ![t] =
                    [IdleTask EXCEPT !.op = "preview",
                                     !.channel_username = channel_username,
                                     !.stack = <<"pv:after_ensure", "en:entry">>]]
    /\ running' = t
    /\ resp' = NoResp
    /\ UNCHANGED <<channels, media_files, client_connected, client_started,
                   handlers_registered, n_handlers, login, booted, now, uploads>>

\* A fetch that goes on to get_entity whatever the guard did.
pv_after_ensure_unguarded(t) ==
    /\ At(t, "pv:after_ensure")
    /\ PvStep(t, Goto([tasks[t] EXCEPT !.exc = NoExc], "pv:await_entity"))

\* ensure_client_connected returned or raised: `return []`, or get_entity
pv_after_ensure(t) ==
    /\ At(t, "pv:after_ensure")
    /\ IF tasks[t].exc # NoExc
       THEN PreviewAnswer(t, <<>>, "Cannot fetch messages")
       ELSE PvStep(t, Goto(tasks[t], "pv:await_entity"))

pv_await_entity(t, outcome) ==
    /\ Awaiting(t, "pv:await_entity")
    /\ IF outcome = "ok"
       THEN PvStep(t, Goto(tasks[t], "pv:await_messages"))
       ELSE PreviewAnswer(t, <<>>, FetchFailed)

\* get_messages(entity, limit=limit) returns or raises; then the for loop,
\* which has no await: it ends, or the read of message number fail_at raises
\* and the except keeps what result holds by then.
pv_await_messages(t, outcome, messages, fail_at) ==
    /\ Awaiting(t, "pv:await_messages")
    /\ fail_at \in 0..Len(messages)
    /\ IF outcome = "raise" THEN PreviewAnswer(t, <<>>, FetchFailed)
       ELSE IF fail_at = 0 THEN PreviewAnswer(t, PreviewItems(messages, Len(messages)), "")
       ELSE PreviewAnswer(t, PreviewItems(messages, fail_at - 1), FetchFailed)

ChannelIds == 1..3

MediaIds == 1..(MaxMsgId + 1)

\* The request bodies of batch_approve_media: up to MaxBatch ids.
Batches == UNION { [1..n -> MediaIds] : n \in 0..MaxBatch }

\* What get_messages(entity, ids=message_id) can find for a message id: no
\* message, or the message with one of the files F.
Found(message_id, F) == {None} \cup { Some([id |-> message_id, file |-> f]) : f \in F }

(***************************************************************************)
(* The steps of the program, by component, for the tasks of T.             *)
(***************************************************************************)
Startup(T) ==
    \/ \E t \in T : Lifespan(t)
    \/ \E t \in T : sc_entry(t)
    \/ \E t \in T : \E o \in {"ok", "not_connected", "raise"} : sc_await_start(t, o)
    \/ \E t \in T : \E o \in {"ok", "raise"} : sc_await_get_me(t, o)
    \/ \E t \in T : sc_after_pull(t)
    \/ \E t \in T : en_entry(t)
    \/ \E t \in T : en_after_start(t)

Live(T, E) ==
    \/ \E t \in T : \E e \in E : NewMessage(t, e)
    \/ \E t \in T : \E o \in {"ok", "raise"} : hd_await_get_chat(t, o)

\* A commit of the handler's save_media fails.
LiveFailure(T) == \E t \in T : hd_await_get_chat(t, "db_raise")

\* pull_all_channel_media up to the loop over the channels
PullEntry(T) ==
    \/ \E t \in T : pl_entry(t)
    \/ \E t \in T : pl_after_ensure(t)

Backfill(T, H) ==
    \/ PullEntry(T)
    \/ \E t \in T : bg_start(t)
    \/ \E t \in T : \E o \in {"ok", "raise"} : pl_await_entity(t, o)
    \/ \E t \in T : \E h \in H : pl_await_messages(t, "ok", h)
    \/ \E t \in T : pl_await_messages(t, "raise", <<>>)
    \/ \E t \in T : pl_ingest(t, "ok")
    \/ \E t \in T : pl_await_sleep(t)

\* A commit of the backfill's save_media fails.
CatalogFailure(T) == \E t \in T : pl_ingest(t, "raise")

\* The message_id that task t passed to download_and_store_media
RequestedMessage(t) ==
    IF IsNone(tasks[t].media) THEN 0 ELSE Val(tasks[t].media).message_id

Materialize(T, F) ==
    \/ \E t \in T : dl_entry(t)
    \/ \E t \in T : dl_after_ensure(t)
    \/ \E t \in T : \E o \in {"ok", "raise"} : dl_await_entity(t, o)
    \/ \E t \in T : \E f \in Found(RequestedMessage(t), F) : dl_await_messages(t, "ok", f)
    \/ \E t \in T : dl_await_messages(t, "raise", None)
    \/ \E t \in T : \E o \in {"ok", "none", "raise"} : dl_await_download(t, o)
    \/ \E t \in T : \E o \in {"ok", "raise"} : sm_await_save_temp(t, o)
    \/ \E t \in T : \E o \in {"ok", "raise"} : sm_await_upload(t, o)
    \/ \E t \in T : sm_await_cleanup(t)

Approval(T) ==
    \/ \E t \in T : \E m \in MediaIds : ApproveStart(t, m)
    \/ \E t \in T : ap_after_dl(t)

BatchApproval(T, B) ==
    \/ \E t \in T : \E b \in B : BatchStart(t, b)
    \/ \E t \in T : ba_item(t)
    \/ \E t \in T : ba_after_dl(t)

Registry(T, Raws, Cs) ==
    \/ \E t \in T : \E raw \in Raws : AddChannelOk(t, raw)
    \/ \E raw \in Raws : AddChannelRejected(raw)
    \/ \E c \in Cs : DeleteChannel(c)
    \/ \E t \in T : \E c \in Cs : \E a \in BOOLEAN : ToggleChannel(t, c, a)

ChannelLists ==
    \/ ListChannels
    \/ ListAllChannels

Preview(T, Names, H) ==
    \/ \E t \in T : \E name \in Names : PreviewStart(t, name)
    \/ \E t \in T : pv_after_ensure(t)
    \/ \E t \in T : \E o \in {"ok", "raise"} : pv_await_entity(t, o)
    \/ \E t \in T : \E h \in H : \E k \in 0..Len(h) : pv_await_messages(t, "ok", h, k)
    \/ \E t \in T : pv_await_messages(t, "raise", <<>>, 0)

Supervisor(T) ==
    \/ \E t \in T : CheckTick(t)
    \/ \E t \in T : \E o \in {"ok", "not_connected", "raise"} : ck_await_connect(t, o)

\* The whole program.
Next ==
    \/ Startup(TaskIds)
    \/ Disconnect
    \/ Live(TaskIds, Events)
    \/ LiveFailure(TaskIds)
    \/ Backfill(TaskIds, Histories)
    \/ CatalogFailure(TaskIds)
    \/ Materialize(TaskIds, Files)
    \/ Approval(TaskIds)
    \/ BatchApproval(TaskIds, Batches)
    \/ \E m \in MediaIds : GetDownloadUrl(m)
    \/ Registry(TaskIds, RawUsernames, ChannelIds)
    \/ ChannelLists
    \/ Supervisor(TaskIds)
    \/ Preview(TaskIds, {NameA, NameB}, Histories)
    \/ \E t \in TaskIds : TriggerPull(t)

Spec == Init /\ [][Next]_vars

\* One coroutine at a time.
Sequential == {1}

\* The events of a public channel and of a chat without a username.
IngestEvents == { e \in Events : e.chat.username # NameB }

\* Ingestion: startup, live messages of every kind, and the backfill of
\* registered channels.
NextIngest ==
    \/ Startup(Sequential)
    \/ Live(Sequential, IngestEvents)
    \/ Backfill(Sequential, Histories)
    \/ \E raw \in {NameA, TmePrefix \o NameB} : AddChannelOk(1, raw)

SpecIngest == Init /\ [][NextIngest]_vars

\* The events that fill the catalog ahead of approval: one channel, an audio
\* file and a document.
ApprovalEvents ==
    { e \in Events : /\ e.chat.username = NameA
                     /\ ~IsNone(e.message.file)
                     /\ Val(e.message.file).mime_type \in {"audio/mpeg", "application/pdf"} }

\* Approval: startup (no channel is registered, so that the startup backfill
\* has nothing to pull), live ingestion, connection loss, single and batch
\* approval.
NextApprove ==
    \/ Startup(Sequential)
    \/ PullEntry(Sequential)
    \/ Disconnect
    \/ Live(Sequential, ApprovalEvents)
    \/ Materialize(Sequential, Files)
    \/ Approval(Sequential)
    \/ BatchApproval(Sequential, Batches)

SpecApprove == Init /\ [][NextApprove]_vars

\* Download links: the same with single approval only, and the requests for
\* a download URL.
NextDownload ==
    \/ Startup(Sequential)
    \/ PullEntry(Sequential)
    \/ Disconnect
    \/ Live(Sequential, ApprovalEvents)
    \/ Materialize(Sequential, Files)
    \/ Approval(Sequential)
    \/ \E m \in MediaIds : GetDownloadUrl(m)

SpecDownload == Init /\ [][NextDownload]_vars

\* One audio file.
AudioFile == Some([mime_type |-> "audio/mpeg", name |-> <<"a", ".", "x">>])

\* Every operation that can reach the catalog, on audio messages of one
\* channel: startup, the supervisor, connection loss, live ingestion,
\* backfill, the channel registry, single and batch approval.
NextCatalog ==
    \/ Startup(Sequential)
    \/ Supervisor(Sequential)
    \/ Disconnect
    \/ Live(Sequential, { e \in Events : e.chat.username = NameA /\ e.message.file = AudioFile })
    \/ Backfill(Sequential, { h \in Histories : \A i \in DOMAIN h : h[i].file = AudioFile })
    \/ Registry(Sequential, {NameA, <<"b", "a", "d">>}, {1})
    \/ Materialize(Sequential, {AudioFile})
    \/ Approval(Sequential)
    \/ BatchApproval(Sequential, { b \in Batches : Len(b) <= 1 })

SpecCatalog == Init /\ [][NextCatalog]_vars

\* Request bodies around the size limit: no id, one id, BatchLimit ids and
\* one more, each the same id repeated.
LimitBatches ==
    { [i \in 1..n |-> m] : n \in {0, 1, BatchLimit, BatchLimit + 1}, m \in {1, 2} }

\* Batch approval around the size limit, on a catalog of at most one record.
NextBatchLimit ==
    \/ Startup(Sequential)
    \/ PullEntry(Sequential)
    \/ Disconnect
    \/ Live(Sequential, { e \in Events : /\ e.chat.username = NameA
                                         /\ e.message.id = 1
                                         /\ e.message.file = AudioFile })
    \/ Materialize(Sequential, {AudioFile})
    \/ BatchApproval(Sequential, LimitBatches)

SpecBatchLimit == Init /\ [][NextBatchLimit]_vars

\* What a pull of the registry's channels finds: nothing, or one audio message.
ShortHistories ==
    { h \in Histories : /\ Len(h) <= 1
                        /\ \A i \in DOMAIN h : h[i].id = 1 /\ h[i].file = AudioFile }

\* The request bodies of add_channel here: one name in three forms, and a
\* name that is too short.
RegistryUsernames ==
    { NameA, <<"@">> \o NameA, TmePrefix \o NameA, <<"b", "a", "d">> }

\* The channel registry with its background pulls, on every task slot:
\* startup, connection loss, add, deactivate and set-active requests for one
\* channel and for the id of none.
NextRegistry ==
    \/ Startup(TaskIds)
    \/ Disconnect
    \/ Backfill(TaskIds, ShortHistories)
    \/ Registry(TaskIds, RegistryUsernames, {1, 2})

SpecRegistry == Init /\ [][NextRegistry]_vars

\* The request bodies of add_channel for two channels.
TwoChannelUsernames ==
    { NameA, <<"@">> \o NameA, NameB, HttpsPrefix \o NameB, <<"b", "a", "d">> }

\* The channel registry of two channels and its two listings, one coroutine
\* at a time.
NextChannels ==
    \/ Startup(Sequential)
    \/ Disconnect
    \/ Backfill(Sequential, ShortHistories)
    \/ Registry(Sequential, TwoChannelUsernames, ChannelIds)
    \/ ChannelLists

SpecChannels == Init /\ [][NextChannels]_vars

\* Names to validate: two well-formed names, names at and around the two
\* length limits, and names with a character outside the class, with inner
\* or trailing whitespace, with a second "@" and with a nested URL prefix.
CandidateNames ==
    { NameA, NameB,
      <<"a", "b", "c", "d">>,
      <<"a", "b", "_", "1", "2">>,
      <<"A", "B", "C", "D", "E", "F">>,
      [i \in 1..MaxUsernameLen |-> "a"],
      [i \in 1..(MaxUsernameLen + 1) |-> "a"],
      <<>>,
      <<"a", "b", "-", "d", "e">>,
      <<"a", "b", ".", "d", "e", "f">>,
      <<"a", "b", " ", "d", "e", "f">>,
      <<"a", "b", "c", "d", "e", "\n">>,
      <<"a", "b", "@", "d", "e", "f">>,
      <<"t", ".">> \o TmePrefix \o <<"m", "e", "/", "a", "b", "c", "d", "e">> }

\* The forms a name is written in: bare, with "@", as a t.me URL without a
\* scheme and with either scheme, padded with spaces, and with "@" in a URL
\* or doubled.
UsernameForms(name) ==
    { name,
      <<"@">> \o name,
      TmePrefix \o name,
      HttpsPrefix \o name,
      HttpPrefix \o name,
      <<" ">> \o name \o <<" ", "\t">>,
      HttpsPrefix \o <<"@">> \o name,
      <<"@", "@">> \o name }

UsernameInputs == UNION { UsernameForms(name) : name \in CandidateNames }

\* validate_channel_username on those inputs and on its own results.
NextValidate ==
    \/ \E username \in UsernameInputs : ValidateUsername(username)
    \/ ValidateOutput

SpecValidate == Init /\ [][NextValidate]_vars

\* What a catalog's records are: kind and approval of each, oldest first.
RecordKinds == [file_type : {"audio", "pdf"}, approved : BOOLEAN]

\* The catalog of the records d: each discovered at its own instant, the
\* approved ones approved afterwards in the same order.
RECURSIVE CatalogOf(_)
CatalogOf(d) ==
    IF d = <<>> THEN <<>>
    ELSE LET n == Len(d)
             name == MessagePrefix \o DecStr(n)
             table == save_media(CatalogOf(SubSeq(d, 1, n - 1)), n, <<"@">> \o NameA, name,
                                 d[n].file_type, None, n)
         IN  IF d[n].approved
             THEN [table EXCEPT
                     ![n] = ApproveRow(@, Some(S3Key(BucketFor(d[n].file_type),
                                                     ObjectName(n, name))),
                                       Len(d) + n)]
             ELSE table

\* The number of records of a catalog of several pages.
ManyRecords == 35

\* Every catalog of up to MaxMsgId + 1 records, and one of ManyRecords
\* records of both kinds, a third of them approved.
Catalogs ==
    { CatalogOf(d) : d \in UNION { [1..n -> RecordKinds] : n \in 0..(MaxMsgId + 1) } }
      \cup { CatalogOf([i \in 1..ManyRecords |->
                          [file_type |-> IF i % 2 = 0 THEN "audio" ELSE "pdf",
                           approved |-> i % 3 = 0]]) }

\* The process starts on a catalog that earlier runs have filled.
InitListing ==
    /\ channels = <<>>
    /\ media_files \in Catalogs
    /\ client_connected = FALSE
    /\ client_started = FALSE
    /\ handlers_registered = FALSE
    /\ n_handlers = 0
    /\ login = "none"
    /\ booted = "init"
    /\ tasks = [t \in TaskIds |-> IdleTask]
    /\ running = 0
    /\ now = 2 * Len(media_files)
    /\ uploads = 0
    /\ resp = NoResp

\* The pages asked for.
Skips == {0, 1, 2, 3, 30}
Limits == {1, 2, 10}

\* The listings of the catalog, once the process is up.
NextListing ==
    \/ Lifespan(1)
    \/ sc_entry(1)
    \/ \E skip \in Skips : \E limit \in Limits : \E media_type \in {"", "audio", "pdf"} :
          \E approved_only \in BOOLEAN : ListMedia(skip, limit, media_type, approved_only)
    \/ \E skip \in Skips : \E limit \in Limits : ListPendingMedia(skip, limit)

SpecListing == InitListing /\ [][NextListing]_vars

\* Histories of one audio message at most, of either id.
OneMessageHistories ==
    { h \in Histories : Len(h) <= 1 /\ \A i \in DOMAIN h : h[i].file = AudioFile }

\* The backfill of up to two channels, with failures of the adapter and of
\* the catalog: startup, connection loss, add and deactivate requests.
NextBackfill ==
    \/ Startup(Sequential)
    \/ Disconnect
    \/ Backfill(Sequential, OneMessageHistories)
    \/ CatalogFailure(Sequential)
    \/ \E raw \in {NameA, NameB} : AddChannelOk(1, raw)
    \/ \E c \in {1, 2} : DeleteChannel(c)

SpecBackfill == Init /\ [][NextBackfill]_vars

\* Starts and restarts of the client on every task slot: startup, connection
\* loss, the supervisor's check, and the guard of the backfill that an
\* add-channel request schedules.
NextRestart ==
    \/ Startup(TaskIds)
    \/ Disconnect
    \/ Supervisor(TaskIds)
    \/ Backfill(TaskIds, {<<>>})
    \/ \E t \in TaskIds : AddChannelOk(t, NameA)

SpecRestart == Init /\ [][NextRestart]_vars

\* What a preview can be shown: up to two messages, with an audio file or
\* without a file.
PreviewHistories ==
    { h \in Histories : \A i \in DOMAIN h : h[i].file \in {None, AudioFile} }

\* The operations behind the connectivity guard, one at a time: startup,
\* connection loss, the backfill that an add-channel request schedules,
\* single approval and the preview.
NextGuard ==
    \/ Startup(Sequential)
    \/ Disconnect
    \/ Backfill(Sequential, OneMessageHistories)
    \/ AddChannelOk(1, NameA)
    \/ Materialize(Sequential, {AudioFile})
    \/ Approval(Sequential)
    \/ Preview(Sequential, {NameA}, PreviewHistories)

SpecGuard == Init /\ [][NextGuard]_vars

\* The manual trigger: startup, connection loss, add and deactivate requests
\* for one channel, the backfills they schedule, and trigger-pull requests.
NextTrigger ==
    \/ Startup(Sequential)
    \/ Disconnect
    \/ Backfill(Sequential, OneMessageHistories)
    \/ AddChannelOk(1, NameA)
    \/ DeleteChannel(1)
    \/ TriggerPull(1)

SpecTrigger == Init /\ [][NextTrigger]_vars

\* Files that suggest a name and files that do not.
NamedOrNot == { AudioFile, Some([mime_type |-> "audio/ogg", name |-> <<>>]) }

\* Discovery and what follows it, on one channel: startup, connection loss,
\* live messages, the backfill of the registered channel, single approval.
NextDiscover ==
    \/ Startup(Sequential)
    \/ Disconnect
    \/ Live(Sequential, { e \in Events : e.chat.username = NameA /\ e.message.file \in NamedOrNot })
    \/ Backfill(Sequential, { h \in Histories : Len(h) <= 1 /\ \A i \in DOMAIN h : h[i].file \in NamedOrNot })
    \/ AddChannelOk(1, NameA)
    \/ Materialize(Sequential, NamedOrNot)
    \/ Approval(Sequential)

SpecDiscover == Init /\ [][NextDiscover]_vars

\* Concurrent ingestion on every task slot, on audio messages of one
\* channel: live handlers and the backfills of startup, of a restart by the
\* supervisor or by a guard, of the manual trigger, and of the creation and
\* the reactivation of the channel, suspended and resumed at their awaits in
\* any order.
NextConcurrent ==
    \/ Startup(TaskIds)
    \/ Disconnect
    \/ Live(TaskIds, { e \in Events : e.chat.username = NameA /\ e.message.file = AudioFile })
    \/ Backfill(TaskIds, { h \in Histories : \A i \in DOMAIN h : h[i].file = AudioFile })
    \/ \E t \in TaskIds : AddChannelOk(t, NameA)
    \/ \E t \in TaskIds : \E a \in BOOLEAN : ToggleChannel(t, 1, a)
    \/ \E t \in TaskIds : TriggerPull(t)
    \/ Supervisor(TaskIds)

SpecConcurrent == Init /\ [][NextConcurrent]_vars

\* Live events on every task slot, of a channel and of a chat without a
\* username, with an audio file or a video, and failures of get_chat and of
\* the catalog: startup, connection loss, the handlers.
NextLive ==
    \/ Startup(TaskIds)
    \/ PullEntry(TaskIds)
    \/ Disconnect
    \/ Live(TaskIds, { e \in IngestEvents :
                         ~IsNone(e.message.file)
                         /\ Val(e.message.file).name # <<>> })
    \/ LiveFailure(TaskIds)

SpecLive == Init /\ [][NextLive]_vars

\* A step that takes task t on: the event loop resumes every coroutine whose
\* awaited call has returned or raised.
Resumes(t) ==
    \/ Startup({t})
    \/ Backfill({t}, {<<>>})
    \/ \E o \in {"ok", "not_connected", "raise"} : ck_await_connect(t, o)

\* The program of SpecRestart under its scheduling: every coroutine is
\* resumed, the scheduler runs the periodic check again and again, and the
\* platform is reachable in that a start() or a connect() that is attempted
\* again and again succeeds.
SpecRecover ==
    /\ Init /\ [][NextRestart]_vars
    /\ \A t \in TaskIds : WF_vars(Resumes(t))
    /\ WF_vars(\E t \in TaskIds : CheckTick(t))
    /\ SF_vars(\E t \in TaskIds : sc_await_start(t, "ok"))
    /\ SF_vars(\E t \in TaskIds : ck_await_connect(t, "ok"))

\* The program of SpecRestart with every awaited call returning or raising
\* and the event loop's ready queue served in order: a coroutine that is
\* ready again and again is resumed, whatever the other tasks do meanwhile.
SpecResume ==
    /\ Init /\ [][NextRestart]_vars
    /\ \A t \in TaskIds : SF_vars(Resumes(t))

\* The one message of the approvals below: message 1 of channel chanA with
\* an audio file.
PairEvent ==
    [chat |-> [username |-> NameA, id |-> 7], message |-> [id |-> 1, file |-> AudioFile]]

\* Approval requests on every task slot for the record of one message:
\* startup, connection loss, the live event that creates the record, and
\* single approval with every outcome of its adapter, download and upload
\* calls.
NextPair ==
    \/ Startup(TaskIds)
    \/ PullEntry(TaskIds)
    \/ Disconnect
    \/ Live(TaskIds, {PairEvent})
    \/ Materialize(TaskIds, {AudioFile})
    \/ Approval(TaskIds)

SpecPair == Init /\ [][NextPair]_vars

(***************************************************************************)
(* Properties of ingestion.                                                *)
(***************************************************************************)
\* Task t is in the loop of a backfill, about to take the next message.
AtPullMessage(t) ==
    /\ tasks[t].stack # <<>>
    /\ Top(tasks[t]) = "pl:ingest"
    /\ tasks[t].idx < Len(tasks[t].msgs)

\* This step is task t's handler running after get_chat, or task t's backfill
\* taking one message.
Ingests(t) ==
    /\ tasks'[t] # tasks[t]
    /\ \/ tasks[t].op = "handler"
       \/ running = t /\ AtPullMessage(t)

\* The message that step is about.
IngestedMessage(t) ==
    IF tasks[t].op = "handler" THEN Val(tasks[t].event).message
    ELSE tasks[t].msgs[tasks[t].idx + 1]

HasRecord(message_id) == \E i \in DOMAIN media_files : media_files[i].message_id = message_id

SupportedMimes == {"audio/mpeg", "audio/ogg", "application/pdf"}

Supported(msg) == ~IsNone(msg.file) /\ Val(msg.file).mime_type \in SupportedMimes

\* C1: ingesting (live or by backfill) a message whose id already has a record
\* leaves the catalog unchanged, and the catalog never holds two records with
\* the same message id.
IngestionIdempotent ==
    /\ [](\A i \in DOMAIN media_files : \A j \in DOMAIN media_files :
            media_files[i].message_id = media_files[j].message_id => i = j)
    /\ [][\A t \in TaskIds :
            Ingests(t) /\ HasRecord(IngestedMessage(t).id) => media_files' = media_files]_vars

\* A backfill has taken a supported message whose id had been recorded from
\* another source, saved nothing for it, and the id still has one record.
ReingestedOnce ==
    \E t \in TaskIds :
        /\ tasks[t].stack # <<>>
        /\ Top(tasks[t]) = "pl:ingest"
        /\ tasks[t].idx = 1
        /\ tasks[t].media_count = 0
        /\ Supported(tasks[t].msgs[1])
        /\ Cardinality({ i \in DOMAIN media_files :
                           media_files[i].message_id = tasks[t].msgs[1].id }) = 1
        /\ \E i \in DOMAIN media_files :
               /\ media_files[i].message_id = tasks[t].msgs[1].id
               /\ media_files[i].channel_username # Head(tasks[t].chans)

\* C2: a message without attachment, or with a MIME type other than
\* audio/mpeg, audio/ogg and application/pdf, creates no record when the live
\* handler or backfill takes it; every record has kind audio or pdf.
OnlySupportedRecorded ==
    /\ [](\A i \in DOMAIN media_files : media_files[i].file_type \in {"audio", "pdf"})
    /\ [][\A t \in TaskIds :
            Ingests(t) /\ ~Supported(IngestedMessage(t)) => media_files' = media_files]_vars

\* A backfill has taken a video and then a message without attachment, and
\* neither has a record.
UnsupportedSkipped ==
    \E t \in TaskIds :
        /\ tasks[t].stack # <<>>
        /\ Top(tasks[t]) = "pl:ingest"
        /\ tasks[t].idx = 2
        /\ ~IsNone(tasks[t].msgs[1].file)
        /\ Val(tasks[t].msgs[1].file).mime_type = "video/mp4"
        /\ IsNone(tasks[t].msgs[2].file)
        /\ ~HasRecord(tasks[t].msgs[1].id)
        /\ ~HasRecord(tasks[t].msgs[2].id)

(***************************************************************************)
(* Properties of approval.                                                 *)
(***************************************************************************)
\* C3: a record whose approval flag is true keeps it in every step.
ApprovedNeverReverts ==
    [][\A i \in DOMAIN media_files :
          media_files[i].approved =>
              i \in DOMAIN media_files' /\ media_files'[i].approved]_vars

\* An approve request has run to its update on a record that was approved
\* when the request loaded it, and the record is approved; meanwhile a
\* backfill has recorded another message and the channel was deactivated.
ApprovedAgain ==
    /\ resp.op = "approve"
    /\ resp.status = 200
    /\ resp.before.approved
    /\ media_files[resp.id].approved
    /\ \E j \in DOMAIN media_files :
           /\ ~media_files[j].approved
           /\ media_files[j].channel_username = <<"@">> \o NameA
    /\ channels # <<>>
    /\ ~channels[1].active

\* C4: an approve request on a record that is approved when the request
\* loads it succeeds without download or upload and leaves the record's
\* storage location and timestamp as they were.
ApproveOfApprovedIsNoOp ==
    (resp.op = "approve" /\ resp.status # 404 /\ resp.before.approved) =>
        /\ resp.status = 200
        /\ resp.ndl = 0
        /\ resp.nul = 0
        /\ media_files[resp.id].s3_key = resp.before.s3_key
        /\ media_files[resp.id].downloaded_at = resp.before.downloaded_at

\* This step is task t's batch taking the next id of the request.
BatchTakes(t) ==
    /\ running = t
    /\ tasks[t].stack # <<>>
    /\ Top(tasks[t]) = "ba:item"
    /\ tasks[t].ids # <<>>
    /\ tasks'[t] # tasks[t]

\* This step is task t's batch going on after download_and_store_media.
BatchResumes(t) ==
    /\ running = t
    /\ tasks[t].stack # <<>>
    /\ Top(tasks[t]) = "ba:after_dl"
    /\ tasks'[t] # tasks[t]

\* C5: when a batch takes an id whose record is approved, it reports the id
\* as successful with status already_approved, starts no download or upload
\* and leaves the record unchanged.
BatchReportsAlreadyApproved ==
    [][\A t \in TaskIds :
          (/\ BatchTakes(t)
           /\ Head(tasks[t].ids) \in DOMAIN media_files
           /\ media_files[Head(tasks[t].ids)].approved)
          => /\ tasks'[t].successful =
                    Append(tasks[t].successful,
                           [id |-> Head(tasks[t].ids), status |-> "already_approved"])
             /\ tasks'[t].failed = tasks[t].failed
             /\ tasks'[t].stack = <<"ba:item">>
             /\ tasks'[t].ndl = tasks[t].ndl
             /\ tasks'[t].nul = tasks[t].nul
             /\ media_files' = media_files]_vars

\* C6: an approve request for an id without record answers 404 in the step
\* that receives it: no task is started for it, no download and no upload is
\* made, and the catalog and the object store are as before.
ApproveOfMissingIsNotFound ==
    /\ [][\A t \in TaskIds :
            tasks[t].op = "idle" /\ tasks'[t].op = "approve"
                => tasks'[t].media_id \in DOMAIN media_files]_vars
    /\ [][(resp'.op = "approve" /\ resp'.id \notin DOMAIN media_files)
              => /\ resp'.status = 404
                 /\ resp'.ndl = 0
                 /\ resp'.nul = 0
                 /\ media_files' = media_files
                 /\ uploads' = uploads
                 /\ tasks' = tasks]_vars

\* A request for an id without record was answered 404 while the catalog
\* holds a Discovered and an Approved record.
MissingAnswered ==
    /\ resp.op = "approve"
    /\ resp.status = 404
    /\ resp.id \notin DOMAIN media_files
    /\ \E i \in DOMAIN media_files : media_files[i].approved
    /\ \E i \in DOMAIN media_files : ~media_files[i].approved

\* C7: from the step of materialization that fails to the response, an
\* approve request changes no record; the failure is not dropped, the
\* response is the 500 for that id, the record is as the request loaded it,
\* and the request can be made again.
FailedApproveChangesNothing ==
    /\ [][\A t \in TaskIds :
            (tasks[t].op = "approve" /\ tasks[t].exc # NoExc /\ tasks'[t] # tasks[t])
                => /\ media_files' = media_files
                   /\ tasks'[t].op = "approve" => tasks'[t].exc = tasks[t].exc
                   /\ tasks'[t].op # "approve" =>
                          /\ resp'.op = "approve"
                          /\ resp'.status = 500
                          /\ resp'.id = tasks[t].media_id]_vars
    /\ []((resp.op = "approve" /\ resp.status = 500)
              => /\ media_files[resp.id] = resp.before
                 /\ ENABLED ApproveStart(1, resp.id))

\* The upload failed after the bytes were downloaded: the request answered
\* 500 and the record is Discovered without storage location.
UploadFailedRecordDiscovered ==
    /\ resp.op = "approve"
    /\ resp.status = 500
    /\ resp.detail = "upload failed"
    /\ resp.ndl = 1
    /\ resp.nul = 0
    /\ ~media_files[resp.id].approved
    /\ IsNone(media_files[resp.id].s3_key)

\* C10: a batch takes every id in order: an id without record goes to
\* failed_items with "Media not found", a failed materialization goes to
\* failed_items with its reason, a materialized id goes to successful_items,
\* and the counts of the response add up to the number of ids.
BatchReportsEveryId ==
    /\ []((resp.op = "batch" /\ resp.status = 200)
              => /\ resp.successful + resp.failed = resp.total
                 /\ resp.successful = Len(resp.successful_items)
                 /\ resp.failed = Len(resp.failed_items))
    /\ [][\A t \in TaskIds :
            (BatchTakes(t) /\ Head(tasks[t].ids) \notin DOMAIN media_files)
                => /\ tasks'[t].failed =
                          Append(tasks[t].failed,
                                 [id |-> Head(tasks[t].ids), error |-> "Media not found"])
                   /\ tasks'[t].ids = Tail(tasks[t].ids)]_vars
    /\ [][\A t \in TaskIds :
            BatchResumes(t)
                => /\ tasks'[t].ids = Tail(tasks[t].ids)
                   /\ IF tasks[t].exc # NoExc
                      THEN /\ tasks'[t].failed =
                                  Append(tasks[t].failed,
                                         [id |-> tasks[t].media_id, error |-> tasks[t].exc])
                           /\ tasks'[t].successful = tasks[t].successful
                      ELSE /\ tasks'[t].successful =
                                  Append(tasks[t].successful,
                                         [id |-> tasks[t].media_id, status |-> "approved"])
                           /\ tasks'[t].failed = tasks[t].failed]_vars

(***************************************************************************)
(* Properties of the download URL.                                         *)
(***************************************************************************)
\* C8: a download URL is issued only for a record whose approval flag is
\* true.
UrlOnlyForApproved ==
    (resp.op = "download_url" /\ resp.status = 200) =>
        /\ resp.id \in DOMAIN media_files
        /\ media_files[resp.id].approved

\* A URL was issued for an approved record while another record is
\* Discovered.
UrlIssued ==
    /\ resp.op = "download_url"
    /\ resp.status = 200
    /\ \E i \in DOMAIN media_files : ~media_files[i].approved

\* C9: a request for the download URL of an existing record that is not
\* approved is answered 403.
UnapprovedIsForbidden ==
    (/\ resp.op = "download_url"
     /\ resp.id \in DOMAIN media_files
     /\ ~media_files[resp.id].approved)
        => resp.status = 403

(***************************************************************************)
(* Properties of the batch size limit.                                     *)
(***************************************************************************)
\* C11: a batch request with no id or with more than 100 ids is answered 400
\* in the step that receives it, with no task started and the catalog, the
\* object store and the tasks as before; a request of 1 to 100 ids is never
\* answered 400 and every batch that starts has 1 to 100 ids.
BatchSizeChecked ==
    /\ []((resp.op = "batch" /\ resp.status = 400)
              => (resp.total = 0 \/ resp.total > 100))
    /\ [][\A t \in TaskIds :
            (tasks[t].op = "idle" /\ tasks'[t].op = "batch")
                => (tasks'[t].total >= 1 /\ tasks'[t].total <= 100)]_vars
    /\ [][(resp'.op = "batch" /\ resp'.status = 400)
              => /\ media_files' = media_files
                 /\ uploads' = uploads
                 /\ tasks' = tasks]_vars

\* A batch of exactly 100 ids was accepted and has run to its summary, with
\* a record approved on the way.
HundredAccepted ==
    /\ resp.op = "batch"
    /\ resp.status = 200
    /\ resp.total = 100
    /\ \E i \in DOMAIN media_files : media_files[i].approved

(***************************************************************************)
(* Properties of the channel registry.                                     *)
(***************************************************************************)
\* The backfill invocations this step schedules.
Scheduled == { t \in TaskIds : /\ tasks[t].op = "idle"
                               /\ tasks'[t].op = "backfill"
                               /\ tasks'[t].stack = <<"bg:scheduled">> }

\* This step answers a set-active request for an existing channel.
TogglesChannel(c) ==
    /\ resp'.op = "toggle_channel"
    /\ resp'.status = 200
    /\ resp'.id = c
    /\ c \in DOMAIN channels

\* C12: a set-active request that moves a channel from inactive to active
\* schedules exactly one backfill invocation; a set-active request that leaves
\* the channel active or makes it inactive, a set-active request for a channel
\* that does not exist, and the deactivate operation schedule none and leave
\* every task as it is.
ReactivationSchedulesOneBackfill ==
    /\ [][\A c \in ChannelIds :
            (TogglesChannel(c) /\ ~channels[c].active /\ channels'[c].active)
                => /\ Cardinality(Scheduled) = 1
                   /\ \A t \in TaskIds \ Scheduled : tasks'[t] = tasks[t]]_vars
    /\ [][\A c \in ChannelIds :
            (TogglesChannel(c) /\ (channels[c].active \/ ~channels'[c].active))
                => tasks' = tasks]_vars
    /\ [][(resp'.op = "toggle_channel" /\ resp'.status = 404) => tasks' = tasks]_vars
    /\ [][resp'.op = "delete_channel" => tasks' = tasks]_vars

\* The one channel was pulled, deactivated and set active again: a second
\* backfill is scheduled and has not started.
ReactivatedOnce ==
    /\ resp.op = "toggle_channel"
    /\ resp.status = 200
    /\ Len(channels) = 1
    /\ channels[1].active
    /\ \E i \in DOMAIN media_files : media_files[i].channel_username = channels[1].username
    /\ Cardinality({ t \in TaskIds : tasks[t].op # "idle" }) = 1
    /\ \E t \in TaskIds : tasks[t].op = "backfill" /\ tasks[t].stack = <<"bg:scheduled">>

\* C13: no two channel rows share a username, and an add-channel request
\* whose normalized username is that of an existing row, active or not, is
\* answered with the error of a duplicate and leaves the table as it is.
ChannelUsernamesUnique ==
    /\ [](\A i \in DOMAIN channels : \A j \in DOMAIN channels :
              channels[i].username = channels[j].username => i = j)
    /\ [][(/\ resp'.op = "add_channel"
           /\ \E i \in DOMAIN channels :
                  channels[i].username = NormalizeUsername(resp'.username))
              => (resp'.status = 400 /\ channels' = channels)]_vars

\* Two channels are registered and an add-channel request for the name of
\* the deactivated one has been refused.
DuplicateOfInactiveRefused ==
    /\ resp.op = "add_channel"
    /\ resp.status = 400
    /\ ~IsNone(validate_channel_username(resp.username))
    /\ Len(channels) = 2
    /\ \E i \in DOMAIN channels :
          /\ channels[i].username = NormalizeUsername(resp.username)
          /\ channels[i].username # resp.username
          /\ ~channels[i].active

\* A name of 5 to 32 letters, digits and underscores.
IsName(name) ==
    /\ Len(name) >= 5
    /\ Len(name) <= 32
    /\ \A i \in DOMAIN name : name[i] \in WordChars

\* C14: validate_channel_username maps a name written bare, with "@", as
\* t.me/name or as https://t.me/name to "@" followed by the name; whatever it
\* returns is "@" followed by 5 to 32 letters, digits or underscores and is
\* the normalized input, so every input whose normalized name is too short,
\* too long or has another character is rejected; and applied to a value it
\* returned it returns that value.
UsernameCanonical ==
    /\ [](resp.op = "validate_channel_username" =>
            /\ \A name \in CandidateNames :
                  (/\ IsName(name)
                   /\ resp.username \in { name, <<"@">> \o name, TmePrefix \o name,
                                          HttpsPrefix \o name })
                      => resp.result = Some(<<"@">> \o name)
            /\ ~IsNone(resp.result) =>
                  /\ Val(resp.result) = NormalizeUsername(resp.username)
                  /\ Head(Val(resp.result)) = "@"
                  /\ IsName(Tail(Val(resp.result)))
            /\ (resp.username # <<>> /\ ~IsName(Tail(NormalizeUsername(resp.username))))
                  => IsNone(resp.result))
    /\ [][(/\ resp.op = "validate_channel_username"
           /\ resp'.op = "validate_channel_username"
           /\ ~IsNone(resp.result)
           /\ resp'.username = Val(resp.result))
              => resp'.result = resp.result]_vars

\* The value returned for a name of 32 characters was validated and came
\* back as it is.
LongestNameCanonical ==
    /\ resp.op = "validate_channel_username"
    /\ Len(resp.username) = 1 + MaxUsernameLen
    /\ resp.result = Some(resp.username)

\* This step deactivates channel c: the deactivate operation, or a set-active
\* request with false.
Deactivates(c) ==
    /\ c \in DOMAIN channels
    /\ resp'.op \in {"delete_channel", "toggle_channel"}
    /\ resp'.status = 200
    /\ resp'.id = c
    /\ \/ resp'.op = "delete_channel"
       \/ Len(channels') = Len(channels) /\ ~channels'[c].active

\* C15: a deactivation leaves the table as long as it was, turns that
\* channel's active flag off and changes nothing else in its row, in any
\* other row or in any media record; no step removes a channel row or
\* changes its id or username; list-active answers exactly the rows whose
\* flag is on and list-all answers every row.
DeactivationOnlyFlipsFlag ==
    /\ [][\A c \in ChannelIds : Deactivates(c) =>
            /\ Len(channels') = Len(channels)
            /\ channels'[c] = [channels[c] EXCEPT !.active = FALSE]
            /\ \A i \in DOMAIN channels : i # c => channels'[i] = channels[i]
            /\ media_files' = media_files]_vars
    /\ [][/\ Len(channels') >= Len(channels)
          /\ \A i \in DOMAIN channels : /\ channels'[i].id = channels[i].id
                                         /\ channels'[i].username = channels[i].username]_vars
    /\ [](resp.op = "list_channels" =>
            /\ { resp.items[i] : i \in DOMAIN resp.items }
                   = { channels[i] : i \in { j \in DOMAIN channels : channels[j].active } }
            /\ Len(resp.items) = Cardinality({ j \in DOMAIN channels : channels[j].active }))
    /\ [](resp.op = "list_all_channels" =>
            /\ { resp.items[i] : i \in DOMAIN resp.items }
                   = { channels[i] : i \in DOMAIN channels }
            /\ Len(resp.items) = Len(channels))

\* Of two channels the first was pulled and then deactivated: list-active
\* answers the second only, and the first one's media record is still there.
DeactivatedLeavesActiveList ==
    /\ resp.op = "list_channels"
    /\ Len(channels) = 2
    /\ ~channels[1].active
    /\ resp.items = <<channels[2]>>
    /\ \E i \in DOMAIN media_files : media_files[i].channel_username = channels[1].username

(***************************************************************************)
(* Properties of the listings.                                             *)
(***************************************************************************)
\* Record m passes the filters of the list-media request req.
MatchesFilters(m, req) ==
    /\ req.approved_only => m.approved
    /\ req.media_type # "" => m.file_type = req.media_type

\* The records of the catalog that pass, by their ids.
Matching(req) == { i \in DOMAIN media_files : MatchesFilters(media_files[i], req) }

\* min(l, max(0, n - s))
PageSize(n, s, l) ==
    LET rest == IF n - s > 0 THEN n - s ELSE 0
    IN  IF l < rest THEN l ELSE rest

\* C16: a list-media answer holds only records of the catalog that pass the
\* request's filters, each once, holds min(limit, max(0, n - skip)) of them
\* where n is the number of records that pass, and reports total = n.
ListMediaPaged ==
    (resp.op = "list_media") =>
        /\ \A k \in DOMAIN resp.items :
              /\ resp.items[k].id \in Matching(resp.req)
              /\ resp.items[k] = media_files[resp.items[k].id]
              /\ \A j \in DOMAIN resp.items : resp.items[j].id = resp.items[k].id => j = k
        /\ Len(resp.items) = PageSize(Cardinality(Matching(resp.req)), resp.req.skip,
                                      resp.req.limit)
        /\ resp.total = Cardinality(Matching(resp.req))

\* Of 35 records the page after the first 30, with room for 10, has 5.
LastPageOfManyRecords ==
    /\ resp.op = "list_media"
    /\ Len(media_files) = 35
    /\ resp.req = [skip |-> 30, limit |-> 10, media_type |-> "", approved_only |-> FALSE]
    /\ Len(resp.items) = 5
    /\ resp.total = 35

\* The unapproved records of the catalog, by their ids.
Unapproved == { i \in DOMAIN media_files : ~media_files[i].approved }

\* C17: a list-pending answer holds only unapproved records, holds
\* min(limit, max(0, p - skip)) of them where p is the number of unapproved
\* records, and reports total = p.
ListPendingPaged ==
    (resp.op = "list_pending_media") =>
        /\ \A k \in DOMAIN resp.items : resp.items[k].id \in Unapproved
        /\ Len(resp.items) = PageSize(Cardinality(Unapproved), resp.req.skip, resp.req.limit)
        /\ resp.total = Cardinality(Unapproved)

(***************************************************************************)
(* Properties of the backfill.                                             *)
(***************************************************************************)
\* Task t is in the retry loop of a backfill.
InPullLoop(t) ==
    /\ tasks[t].stack # <<>>
    /\ Top(tasks[t]) \in {"pl:await_entity", "pl:await_messages", "pl:ingest",
                          "pl:await_sleep"}

\* This step starts a fetch: task t comes to await get_entity.
StartsFetch(t) ==
    /\ tasks'[t] # tasks[t]
    /\ tasks'[t].stack # <<>>
    /\ Top(tasks'[t]) = "pl:await_entity"

\* This step of task t ends its work on a channel that is not the run's last.
LeavesChannel(t) ==
    /\ InPullLoop(t)
    /\ Len(tasks[t].chans) >= 2
    /\ tasks'[t].chans # tasks[t].chans

\* C18: in a backfill run a fetch of a channel starts only while fewer than
\* 3 attempts on it have failed; a fetch of the same channel starts again
\* only out of the pause after a failed attempt; and when the run is done
\* with a channel that is not its last, whether its fetch succeeded or its
\* 3 attempts failed on the adapter or on the catalog, the run goes on to
\* fetch the next channel.
BackfillRetriesPerChannel ==
    /\ [][\A t \in TaskIds : StartsFetch(t) => tasks'[t].retry < 3]_vars
    /\ [][\A t \in TaskIds :
            (StartsFetch(t) /\ InPullLoop(t) /\ tasks'[t].chans = tasks[t].chans)
                => /\ Top(tasks[t]) = "pl:await_sleep"
                   /\ tasks[t].retry >= 1]_vars
    /\ [][\A t \in TaskIds :
            LeavesChannel(t)
                => /\ StartsFetch(t)
                   /\ tasks'[t].chans = Tail(tasks[t].chans)
                   /\ tasks'[t].retry = 0]_vars

(***************************************************************************)
(* Properties of startup and of the supervisor.                            *)
(***************************************************************************)
\* How many startup backfills task t is in.
RECURSIVE StartupPulls(_)
StartupPulls(stack) ==
    IF stack = <<>> THEN 0
    ELSE (IF Head(stack) = "sc:after_pull" THEN 1 ELSE 0) + StartupPulls(Tail(stack))

\* This step of task t is a start_client calling the backfill.
StartsStartupBackfill(t) == StartupPulls(tasks'[t].stack) > StartupPulls(tasks[t].stack)

\* C19: start_client calls the backfill only in the step that registers the
\* handlers, which stay registered from then on, so that it calls it at most
\* once in the life of the process; and it does not call it when the login
\* is a bot's.
StartupBackfillOnce ==
    /\ [][\A t \in TaskIds :
            StartsStartupBackfill(t) => (~handlers_registered /\ handlers_registered')]_vars
    /\ [][handlers_registered => handlers_registered']_vars
    /\ [][\A t \in TaskIds : StartsStartupBackfill(t) => login # "bot_token"]_vars

\* This step starts a reconnection check on task t.
CheckStarts(t) == tasks[t].op = "idle" /\ tasks'[t].op = "check"

\* C20: a reconnection check on a client that was never started runs
\* start_client; on a started, disconnected client it awaits connect() first,
\* and from there it either ends or, only with the client still disconnected,
\* runs start_client; on a started, connected client it does nothing; and no
\* exception leaves a check.
CheckActsByAdapterState ==
    /\ [][\A t \in TaskIds : CheckStarts(t) =>
            IF ~client_started
            THEN tasks'[t].stack = <<"sc:entry">>
            ELSE ~client_connected /\ tasks'[t].stack = <<"ck:await_connect">>]_vars
    /\ [][\A t \in TaskIds :
            (/\ tasks[t].op = "check"
             /\ tasks[t].stack = <<"ck:await_connect">>
             /\ tasks'[t] # tasks[t])
                => \/ tasks'[t].op = "idle"
                   \/ tasks'[t].stack = <<"sc:entry">> /\ ~client_connected']_vars
    /\ [](resp.op = "unhandled" => resp.task # "check")
    /\ [](\A t \in TaskIds :
             (tasks[t].op = "check" /\ tasks[t].exc # NoExc)
                 => Top(tasks[t]) \in {"pl:after_ensure", "sc:after_pull"})

\* A check found the client started and disconnected and awaits connect().
CheckReconnects ==
    \E t \in TaskIds :
        /\ tasks[t].op = "check"
        /\ tasks[t].stack = <<"ck:await_connect">>
        /\ client_started
        /\ ~client_connected

\* C21: a reconnection check on a started, connected client leaves its log
\* line and nothing else: no task is started (no adapter call, no backfill),
\* no handler is registered, the started and handlers flags, the connection,
\* the channels and the catalog are as before; a check run after it finds the
\* same state and leaves the same line.  And the line is left only by a check
\* on a started, connected client.
HealthyCheckIsNoOp ==
    [][resp'.op = "check" =>
          /\ client_started /\ client_connected
          /\ resp' = CheckOk
          /\ UNCHANGED <<channels, media_files, client_connected, client_started,
                         handlers_registered, n_handlers, login, booted, tasks,
                         running, now, uploads>>]_vars

\* A check has run on a started, connected client with its handlers registered.
HealthyChecked ==
    /\ resp.op = "check"
    /\ client_started
    /\ client_connected
    /\ handlers_registered

(***************************************************************************)
(* Properties of the connectivity guard and of the preview.                *)
(***************************************************************************)
\* The program counters at which an operation learns what its guard did.
AfterEnsure == {"pl:after_ensure", "dl:after_ensure", "pv:after_ensure"}

\* The program counters of an operation from its first adapter call on.
BehindGuard ==
    { "pl:await_entity", "pl:await_messages", "pl:ingest", "pl:await_sleep",
      "dl:await_entity", "dl:await_messages", "dl:await_download",
      "sm:await_save_temp", "sm:await_upload", "sm:await_cleanup",
      "pv:await_entity", "pv:await_messages" }

NotConnected == "Telethon client is not connected"

\* Task t has its guard's exception in hand at pc.
GuardRaisedAt(t, pc) == At(t, pc) /\ tasks[t].exc = NotConnected

\* This step takes task t from outside an operation's adapter calls to them.
PassesGuard(t) ==
    /\ tasks'[t].stack # <<>> /\ Top(tasks'[t]) \in BehindGuard
    /\ tasks[t].stack = <<>> \/ Top(tasks[t]) \notin BehindGuard

\* C22: backfill, preview and approval reach their adapter calls only from
\* the return of the connectivity guard.  A guard that finds the client
\* still disconnected after its restart raises, and the operation then ends
\* in the same step without an adapter call and without waiting: the
\* backfill returns and leaves the catalog alone, download_and_store_media
\* re-raises and approve_media answers 500 with no download and no upload,
\* the preview answers the empty list.
GuardedOperationsFailFast ==
    [][\A t \in TaskIds :
          /\ PassesGuard(t) =>
                /\ At(t, Top(tasks[t])) /\ Top(tasks[t]) \in AfterEnsure
                /\ tasks[t].exc = NoExc
          /\ At(t, "en:after_start") /\ ~client_connected =>
                /\ tasks'[t].exc = NotConnected
                /\ Top(tasks'[t]) \in AfterEnsure
                /\ running' = t
          /\ GuardRaisedAt(t, "pl:after_ensure") =>
                /\ tasks'[t].stack = SubSeq(tasks[t].stack, 1, Len(tasks[t].stack) - 1)
                /\ tasks'[t].exc = NoExc
                /\ media_files' = media_files
          /\ GuardRaisedAt(t, "dl:after_ensure") =>
                /\ tasks'[t].exc = NotConnected
                /\ Top(tasks'[t]) \in {"ap:after_dl", "ba:after_dl"}
                /\ running' = t
          /\ GuardRaisedAt(t, "ap:after_dl") =>
                /\ resp'.op = "approve" /\ resp'.status = 500
                /\ resp'.detail = NotConnected
                /\ resp'.ndl = 0 /\ resp'.nul = 0
                /\ media_files' = media_files /\ uploads' = uploads
          /\ GuardRaisedAt(t, "pv:after_ensure") =>
                /\ resp'.op = "preview" /\ resp'.items = <<>>
                /\ tasks'[t] = IdleTask]_vars

\* The guard of a preview has raised: the client is disconnected.
PreviewGuardRaised ==
    /\ GuardRaisedAt(1, "pv:after_ensure")
    /\ ~client_connected /\ booted = "up"

\* A channel is registered and active.
HasActiveChannel == \E i \in DOMAIN channels : channels[i].active

\* This step schedules exactly one backfill and changes no other task.
SchedulesOneBackfill ==
    \E t \in TaskIds :
        /\ tasks[t].op = "idle"
        /\ tasks'[t].op = "backfill" /\ tasks'[t].stack = <<"bg:scheduled">>
        /\ \A u \in TaskIds \ {t} : tasks'[u] = tasks[u]

\* C23: a trigger-pull request made while the client is started and
\* connected and an active channel exists is acknowledged and schedules
\* exactly one backfill; any other request schedules none and is answered
\* with the reason, client not connected or no active channels.
TriggerPullByAdapterState ==
    [][resp'.op = "trigger_pull" =>
          IF client_started /\ client_connected /\ HasActiveChannel
          THEN resp'.success /\ SchedulesOneBackfill
          ELSE /\ ~resp'.success
               /\ tasks' = tasks
               /\ resp'.error = IF client_started /\ client_connected
                                THEN "No active channels"
                                ELSE "Telethon client not connected"]_vars

\* Task t is serving a preview request.
InPreview(t) == tasks[t].op = "preview"

\* C24: no step of a preview request creates or changes a channel or a
\* catalog record, and a preview in which get_entity, get_messages or the
\* read of a message failed answers with the empty list.
PreviewReadsOnly ==
    [][/\ (\E t \in TaskIds : InPreview(t)) =>
              channels' = channels /\ media_files' = media_files
       /\ resp'.op = "preview" /\ resp'.log = FetchFailed => resp'.items = <<>>]_vars

(***************************************************************************)
(* Properties of add_channel.                                              *)
(***************************************************************************)
\* username is in the form validate_channel_username returns
Normalized(username) == validate_channel_username(username) = Some(username)

NewRecords == (DOMAIN media_files') \ (DOMAIN media_files)

\* C26: a catalog record is created only by the live handler or the
\* backfill, for the message being ingested, with no storage location, not
\* approved, and named as the message's file suggests or message_<id> when
\* it suggests nothing; a record's storage location changes from null only
\* in the step of an approve request that answers 200 for that record.
CreatedDiscovered ==
    [][/\ Len(media_files') >= Len(media_files)
       /\ \A i \in NewRecords :
             \E t \in TaskIds :
                 /\ Ingests(t)
                 /\ LET msg == IngestedMessage(t)
                        row == media_files'[i]
                    IN  /\ row.message_id = msg.id
                        /\ row.s3_key = None
                        /\ row.approved = FALSE
                        /\ row.file_name = IF Val(msg.file).name # <<>>
                                           THEN Val(msg.file).name
                                           ELSE MessagePrefix \o DecStr(msg.id)
       /\ \A i \in DOMAIN media_files :
             media_files[i].s3_key = None /\ media_files'[i].s3_key # None =>
                 /\ resp'.op = "approve" /\ resp'.status = 200 /\ resp'.id = i
                 /\ media_files'[i].approved]_vars

\* A record named message_<id> by the backfill next to a record that kept
\* its suggested name and has since been approved.
FallbackNameRecorded ==
    \E i \in DOMAIN media_files : \E j \in DOMAIN media_files :
        /\ media_files[i].file_name = MessagePrefix \o DecStr(media_files[i].message_id)
        /\ media_files[i].channel_username = <<"@">> \o NameA
        /\ media_files[i].s3_key = None /\ ~media_files[i].approved
        /\ media_files[j].file_name = <<"a", ".", "x">>
        /\ media_files[j].s3_key # None

\* Task t is where an approve request or a batch item learns the outcome of
\* download_and_store_media.
AfterMaterialization(t) == At(t, "ap:after_dl") \/ At(t, "ba:after_dl")

Changes(i) == media_files'[i] # media_files[i]

Stage(pc) ==
    CASE pc = "dl:after_ensure" -> 0
      [] pc = "dl:await_entity" -> 1
      [] pc = "dl:await_messages" -> 2
      [] pc = "dl:await_download" -> 3
      [] pc = "sm:await_save_temp" -> 4
      [] pc = "sm:await_upload" -> 5
      [] pc = "sm:await_cleanup" -> 6
      [] OTHER -> 7

\* Task t is inside download_and_store_media, before or after this step.
Materializing(r) == r.stack # <<>> /\ Stage(Top(r)) < 7

\* C29: one materialization goes through resolve, download, kind check,
\* upload in this order and never back.  It awaits the download only with a
\* resolved message that has a file; it goes on to store_media only after a
\* download of its own and with a live MIME type of a supported kind; an
\* object is put only by such a task, into the bucket of the kind derived
\* from the live MIME type; and the record gets a location only from a task
\* whose upload succeeded.
MaterializationOrdered ==
    [][/\ \A t \in TaskIds :
            LET r == tasks[t]
                q == tasks'[t]
            IN  /\ Materializing(r) /\ Materializing(q) /\ q # r =>
                      Stage(Top(q)) > Stage(Top(r))
                /\ Materializing(q) /\ q # r /\ Stage(Top(q)) = 3 =>
                      /\ Materializing(r) /\ Stage(Top(r)) = 2
                      /\ q.msg # None /\ Val(q.msg).file # None
                      /\ Val(q.msg).id = Val(q.media).message_id
                /\ Materializing(q) /\ q # r /\ Stage(Top(q)) = 4 =>
                      /\ Materializing(r) /\ Stage(Top(r)) = 3
                      /\ q.ndl = r.ndl + 1
                      /\ q.msg = r.msg
                      /\ MsgMediaType(Val(q.msg)) \in {"audio", "pdf"}
       /\ uploads' # uploads =>
            \E t \in TaskIds :
                /\ Awaiting(t, "sm:await_upload")
                /\ uploads' = uploads + 1
                /\ tasks[t].ndl >= 1
                /\ Supported(Val(tasks[t].msg))
                /\ Val(tasks'[t].s3_key) =
                       S3Key(BucketFor(MediaType(Val(Val(tasks[t].msg).file).mime_type)),
                             ObjectName(uploads', DownloadName(Val(tasks[t].msg))))
       /\ \A i \in DOMAIN media_files :
            media_files'[i].s3_key # media_files[i].s3_key =>
                \E t \in TaskIds :
                    /\ AfterMaterialization(t) /\ tasks[t].exc = NoExc
                    /\ tasks[t].nul >= 1
                    /\ media_files'[i].s3_key = tasks[t].s3_key]_vars

\* A record discovered as audio whose message carried a document when it
\* was approved: the object is in the bucket of the kind found then.
StoredByLiveKind ==
    \E i \in DOMAIN media_files :
        /\ media_files[i].file_type = "audio"
        /\ media_files[i].approved
        /\ media_files[i].s3_key = Some(S3Key(S3_BUCKET_PDF, ObjectName(uploads, <<"f">>)))

(***************************************************************************)
(* Properties of concurrent ingestion.                                     *)
(***************************************************************************)
\* The records of the catalog for a message id.
RecordsOf(table, message_id) ==
    { i \in DOMAIN table : table[i].message_id = message_id }

\* C30: with backfills and live handlers interleaved at their awaits, a
\* step inserts at most one record, for the message the stepping task is
\* ingesting and only if its id had no record; the catalog never holds two
\* records for one message id, so that no insert meets the uniqueness
\* constraint and no ingestion task ends with an exception; and after a
\* backfill has taken a supported message its id has exactly one record.
ConcurrentIngestionUnique ==
    /\ [](/\ \A i \in DOMAIN media_files :
               Cardinality(RecordsOf(media_files, media_files[i].message_id)) = 1
          /\ resp.op # "unhandled")
    /\ [][/\ Len(media_files') \in {Len(media_files), Len(media_files) + 1}
          /\ \A i \in NewRecords :
               /\ ~HasRecord(media_files'[i].message_id)
               /\ \E t \in TaskIds :
                     Ingests(t) /\ IngestedMessage(t).id = media_files'[i].message_id
          /\ \A t \in TaskIds :
               running = t /\ AtPullMessage(t) /\ tasks'[t] # tasks[t]
               /\ Supported(IngestedMessage(t)) =>
                   Cardinality(RecordsOf(media_files', IngestedMessage(t).id)) = 1]_vars

\* A backfill has just saved a message while a live handler for the same
\* message is suspended in get_chat: the handler will find the record.
BackfillOvertakesHandler ==
    /\ running = 1
    /\ tasks[1].op = "backfill" /\ AtPullMessage(1) = FALSE
    /\ tasks[1].stack # <<>> /\ Top(tasks[1]) = "pl:ingest"
    /\ tasks[1].idx = 1 /\ tasks[1].media_count = 1
    /\ tasks[2].op = "handler"
    /\ Val(tasks[2].event).message.id = tasks[1].msgs[1].id
    /\ Cardinality(RecordsOf(media_files, tasks[1].msgs[1].id)) = 1

(***************************************************************************)
(* Properties of the live handler.                                         *)
(***************************************************************************)
\* This step is the one step task t's handler takes after get_chat.
HandlerStep(t) == tasks[t].op = "handler" /\ tasks'[t] # tasks[t]

\* C31: a handler ends in the step that follows get_chat, whatever failed:
\* no exception leaves it, no task is started in its place, the client, the
\* handlers and the registry are as before, and after a failure of get_chat
\* or of the catalog write the catalog is unchanged; a handler that logged
\* no failure has done exactly what the handler does for its event on the
\* catalog as it found it.  In the state after a dropped failure the next
\* event is delivered as at any other time.
HandlerFailureDropped ==
    /\ [](resp.op = "handler_error" /\ client_connected /\ running = 0 =>
             /\ resp.log \in {"Error in message handler", "Error recording message"}
             /\ \A e \in Events : \E t \in TaskIds : ENABLED NewMessage(t, e))
    /\ [][\A t \in TaskIds :
            HandlerStep(t) =>
                /\ tasks'[t] = IdleTask
                /\ \A u \in TaskIds \ {t} : tasks'[u] = tasks[u]
                /\ resp'.op \in {"none", "handler_error"}
                /\ UNCHANGED <<channels, client_connected, client_started,
                               handlers_registered, n_handlers>>
                /\ media_files' =
                       IF resp'.op = "handler_error" THEN media_files
                       ELSE LET e == Val(tasks[t].event)
                            IN  HandlerRecord(media_files, e.chat, e.message, now)]_vars

\* The catalog write for a supported message has just failed: the message
\* has no record, no task is left, and the handlers are in place.
CatalogWriteFailureDropped ==
    /\ resp.op = "handler_error" /\ resp.log = "Error recording message"
    /\ ~HasRecord(resp.message_id)
    /\ \A t \in TaskIds : tasks[t] = IdleTask
    /\ client_connected /\ n_handlers = 1
    /\ media_files # <<>>

(***************************************************************************)
(* Properties of the restarts.                                             *)
(***************************************************************************)
\* The client has lost its connection after its handlers were registered.
ConnectionDropped == handlers_registered /\ ~client_connected

\* The client is started and connected and has its one handler.
Recovered ==
    /\ client_started /\ client_connected
    /\ handlers_registered /\ n_handlers = 1

\* C32: a client that has lost its connection is eventually started and
\* connected again with its handler registered once, provided the periodic
\* check keeps running and start() and connect() succeed when retried.
DropLeadsToRecovery == ConnectionDropped ~> Recovered

\* The connection is down, the flag says started, and no check is under way.
DroppedAndIdle ==
    /\ ConnectionDropped /\ client_started
    /\ \A t \in TaskIds : tasks[t] = IdleTask

(***************************************************************************)
(* Registration of the live handler.                                       *)
(***************************************************************************)
\* Task t is inside a start_client that awaits get_me.
StartingClient(t) == tasks[t].stack # <<>> /\ Top(tasks[t]) = "sc:await_get_me"

\* C33: under any interleaving of start_client invocations (startup, the
\* supervisor's check, the guard of a backfill) the client carries at most
\* one handler, and exactly one when the handlers-registered flag is set;
\* the flag never returns to false; and a step registers a handler only
\* with the flag false, one handler at a time.
HandlersRegisteredOnce ==
    /\ [](n_handlers <= 1 /\ (handlers_registered <=> n_handlers = 1))
    /\ [][handlers_registered => handlers_registered']_vars
    /\ [][n_handlers' # n_handlers
            => (~handlers_registered /\ n_handlers' = n_handlers + 1)]_vars

\* Two start_client invocations are under way at once, one of them in its
\* startup backfill after registering, the other awaiting get_me.
SecondStartSkipsRegistration ==
    \E t, u \in TaskIds :
        /\ t # u
        /\ StartupPulls(tasks[t].stack) = 1
        /\ StartingClient(u)
        /\ handlers_registered /\ n_handlers = 1

(***************************************************************************)
(* Termination of start_client.                                            *)
(***************************************************************************)
StartClientPcs == {"sc:entry", "sc:await_start", "sc:await_get_me", "sc:after_pull"}

\* How many start_client invocations a call stack holds.
RECURSIVE StartClientFrames(_)
StartClientFrames(stack) ==
    IF stack = <<>> THEN 0
    ELSE (IF Head(stack) \in StartClientPcs THEN 1 ELSE 0) + StartClientFrames(Tail(stack))

\* The deepest nesting of start_client: the one that runs the startup
\* backfill and the one that the backfill's guard calls.
MaxStartDepth == 2

InStartClient(t) == StartClientFrames(tasks[t].stack) > 0

\* C34: a call stack never holds more than one startup backfill nor more
\* than two start_client invocations (the outer one and the one called by
\* its backfill's guard), and with every awaited call returning or raising
\* a task that is inside start_client eventually is outside of it.
StartClientTerminates ==
    /\ [](\A t \in TaskIds :
            /\ StartClientFrames(tasks[t].stack) <= MaxStartDepth
            /\ StartupPulls(tasks[t].stack) <= 1)
    /\ \A t \in TaskIds : InStartClient(t) ~> ~InStartClient(t)

\* A start_client called by the guard of the startup backfill of another
\* start_client.
NestedStartClient ==
    \E t \in TaskIds :
        /\ StartClientFrames(tasks[t].stack) = MaxStartDepth
        /\ StartupPulls(tasks[t].stack) = 1

(***************************************************************************)
(* The started flag when start_client returns.                             *)
(***************************************************************************)
\* This step is a start_client of task t returning to its caller.
StartClientReturns(t) ==
    StartClientFrames(tasks'[t].stack) < StartClientFrames(tasks[t].stack)

\* C35: whenever a start_client invocation returns, the started flag is
\* true exactly when the client is connected at that moment.
StartedIffConnectedOnReturn ==
    [][\A t \in TaskIds :
        StartClientReturns(t) => (client_started' <=> client_connected')]_vars

(***************************************************************************)
(* The chats whose live messages are recorded.                             *)
(***************************************************************************)
\* The chat is a channel whose handle the registry holds with its active
\* flag set.
RegisteredActive(chat) ==
    \E i \in DOMAIN channels :
        /\ channels[i].active
        /\ channels[i].username = <<"@">> \o chat.username

\* C36: a handler adds a catalog record only for an event whose chat is a
\* channel that the registry holds as active at that time.
LiveRecordsRegisteredOnly ==
    [][\A t \in TaskIds :
        (HandlerStep(t) /\ media_files' # media_files)
            => RegisteredActive(Val(tasks[t].event).chat)]_vars

(***************************************************************************)
(* Live ingestion against backfill.                                        *)
(***************************************************************************)
\* The handle under which the registry holds the chat's channel.
HandleOf(chat) == <<"@">> \o chat.username

\* The total that GET /media/by-channel/{handle} answers for the table.
ChannelTotal(table, handle) == Len(get_media_by_channel(table, handle, 0, Len(table)))

\* C37: when a handler adds a record for a message of a registered
\* channel, the catalog after it is the one that the backfill of that
\* channel would have produced for the message (same message id, channel
\* identity, filename and kind), and the listing by the channel's handle
\* has grown by the record.
LiveRecordAsBackfill ==
    [][\A t \in TaskIds :
        (HandlerStep(t) /\ media_files' # media_files
            /\ RegisteredActive(Val(tasks[t].event).chat))
        => LET e == Val(tasks[t].event)
           IN  /\ media_files' = PullRecord(media_files, HandleOf(e.chat), e.message, now)
               /\ ChannelTotal(media_files', HandleOf(e.chat))
                    = ChannelTotal(media_files, HandleOf(e.chat)) + 1]_vars

(***************************************************************************)
(* What a backfill leaves in the catalog.                                  *)
(***************************************************************************)
\* This step of task t ends the loop over a channel's fetched messages: the
\* fetch and every save of this attempt succeeded.
ChannelPulled(t) ==
    /\ tasks[t].stack # <<>>
    /\ running = t
    /\ Top(tasks[t]) = "pl:ingest"
    /\ tasks[t].idx = Len(tasks[t].msgs)
    /\ tasks'[t] # tasks[t]

\* The catalog holds a record of the message under the channel's name.
RecordedFor(table, username, msg) ==
    \E j \in DOMAIN table :
        /\ table[j].message_id = msg.id
        /\ table[j].channel_username = username

\* C38: when the backfill has gone through the fetched history of a
\* channel, every message of that history with a supported MIME type has a
\* catalog record carrying its message id and the channel's name.
FetchedHistoryRecorded ==
    [][\A t \in TaskIds :
        ChannelPulled(t)
        => \A i \in DOMAIN tasks[t].msgs :
              MsgMediaType(tasks[t].msgs[i]) # ""
              => RecordedFor(media_files', Head(tasks[t].chans), tasks[t].msgs[i])]_vars

(***************************************************************************)
(* Two approvals of one record.                                            *)
(***************************************************************************)
\* The keys that the successful uploads of the message's file have returned.
UploadedKeys ==
    { Some(S3Key(S3_BUCKET_AUDIO, ObjectName(k, DownloadName(PairEvent.message)))) :
        k \in 1..uploads }

\* No approval request is under way.
ApprovalsFinished == \A t \in TaskIds : tasks[t].op # "approve"

\* C39: under any interleaving of approval requests for one record, an
\* approved record's location is a key that a successful upload returned;
\* once every request has finished the record is approved if an upload has
\* succeeded; and a record changes only in the step of a request that
\* answers 200 for it, so that a request that fails writes nothing.
ConcurrentApprovals ==
    /\ [](\A i \in DOMAIN media_files :
            /\ media_files[i].approved => media_files[i].s3_key \in UploadedKeys
            /\ (ApprovalsFinished /\ uploads >= 1) => media_files[i].approved)
    /\ [][\A i \in DOMAIN media_files :
            Changes(i) => (resp'.op = "approve" /\ resp'.status = 200 /\ resp'.id = i)]_vars
    /\ [][(resp'.op = "approve" /\ resp'.status = 500) => media_files' = media_files]_vars

\* Two requests have uploaded and both have finished; the record holds the
\* key of the first upload, whose request committed after the other's.
EarlierUploadCommittedLast ==
    /\ ApprovalsFinished
    /\ uploads = 2
    /\ Len(media_files) = 1
    /\ media_files[1].approved
    /\ media_files[1].s3_key =
          Some(S3Key(S3_BUCKET_AUDIO, ObjectName(1, DownloadName(PairEvent.message))))

====
